---- MODULE Spec2Model ----
(***************************************************************************)
(* Model of the Player component of zen-create (src/components/Player.tsx) *)
(* : the playback sequencer, the render loop, the media handles and the    *)
(* recording pipeline.                                                     *)
(*                                                                         *)
(* React is modelled at the granularity of an event handler: one action is *)
(* one handler (a click, a timer callback, a media event) together with    *)
(* the re-render it causes and the effect cleanups and effect bodies whose *)
(* dependencies changed.  Closures are modelled by what they captured: a   *)
(* timer and the 'ended' listener carry the isRecording of the render that *)
(* created them, the render loop carries the scene and isPlaying of the    *)
(* render whose startPlayback started it.                                  *)
(*                                                                         *)
(* Scene indices are 0-based as in the code; scenes[i + 1] is scene i.     *)
(***************************************************************************)
EXTENDS Integers, Sequences, FiniteSets, TLC

(***************************************************************************)
(* Bounds of the model.                                                    *)
(***************************************************************************)
MaxScenes == 2
MaxSessions == 2
MaxSeqScenes == 2
MaxSeqSessions == 2
MaxRenderScenes == 2
MaxPos == 2
MaxTextLen == 6
MaxChunkSessions == 1
MaxTracedScenes == 2
MaxZoomScenes == 2
MaxNow == 3
MaxProdScenes == 3
MaxProdRuns == 2
MaxStorageCalls == 4
SigBits == 9

(***************************************************************************)
(* Program constants.                                                      *)
(***************************************************************************)
DefaultDuration == 5
DwellSeconds == 5
AudioAttempts == 2
PollLimit == 30

VARIABLES
    scenes,             \* props.scenes
    mounted,            \* the Player is mounted (onClose unmounts it)
    currentSceneIndex,  \* useState(0)
    currentSubtitles,   \* the useMemo of lines 47-78, as of the last render
    isPlaying,          \* useState(false)
    isRecording,        \* useState(false)
    narr,               \* narrationRef.current
    plays,              \* pending promises of narrationRef.current.play()
    bgm,                \* bgmRef.current
    video,              \* videoRef.current
    img,                \* imgRef.current
    loop,               \* requestRef.current and the renderFrame closure it runs
    timers,             \* pending setTimeout(handleNext, ...) callbacks
    endedRec,           \* isRecording captured by the registered 'ended' listener
    audioCtx,           \* audioCtxRef.current
    recorders,          \* every MediaRecorder created so far
    mediaRecorderRef,   \* mediaRecorderRef.current (index into recorders, 0 = null)
    recordedChunks,     \* recordedChunksRef.current
    files,              \* downloads offered (a.click())
    session,            \* number of startPlayback calls so far
    hist,               \* history: what the last handler did (for the properties);
                        \* also Date.now() and sceneStartTimeRef.current, in seconds
    production,         \* a run of handleStartProduction and the project it works on
    audioGen,           \* a call of generateSceneAudio
    videoPoll,          \* the polling loop of a call of generateSceneVideo
    storage             \* localStorage[STORAGE_KEY], the stored list of projects

vars == <<scenes, mounted, currentSceneIndex, currentSubtitles, isPlaying,
          isRecording, narr, plays,
          bgm, video, img, loop, timers, endedRec, audioCtx, recorders,
          mediaRecorderRef, recordedChunks, files, session, hist,
          production, audioGen, videoPoll, storage>>

(* the Player's own state                                                  *)
playerVars == <<scenes, mounted, currentSceneIndex, currentSubtitles,
                isPlaying, isRecording, narr, plays, bgm, video, img, loop,
                timers, endedRec, audioCtx, recorders, mediaRecorderRef,
                recordedChunks, files, session, hist>>

(* the state of the editor's workflow and of the services it calls, which  *)
(* the Player neither reads nor writes                                     *)
serviceVars == <<production, audioGen, videoPoll, storage>>

(***************************************************************************)
(* Narration text: a sequence of characters.  "." and "!" stand for the    *)
(* punctuation class of the split regex, " " for white space.              *)
(***************************************************************************)
IsPunct(c) == c \in {".", "!"}

IsSpace(c) == c = " "

RECURSIVE TrimLeft(_)
TrimLeft(s) ==
    IF s = <<>> THEN <<>>
    ELSE IF IsSpace(Head(s)) THEN TrimLeft(Tail(s)) ELSE s

RECURSIVE TrimRight(_)
TrimRight(s) ==
    IF s = <<>> THEN <<>>
    ELSE IF IsSpace(s[Len(s)]) THEN TrimRight(SubSeq(s, 1, Len(s) - 1)) ELSE s

Trim(s) == TrimRight(TrimLeft(s))

(* text.split(/([...]+)/): runs alternate text, punctuation, text, ...;     *)
(* the first and the last run are text runs (possibly empty).              *)
RECURSIVE SplitRuns(_, _)
SplitRuns(s, acc) ==
    IF s = <<>>
    THEN IF Len(acc) % 2 = 0 THEN Append(acc, <<>>) ELSE acc
    ELSE LET c == Head(s)
             inPunct == Len(acc) % 2 = 0
             last == acc[Len(acc)]
         IN  IF IsPunct(c) = inPunct
             THEN SplitRuns(Tail(s), [acc EXCEPT ![Len(acc)] = Append(last, c)])
             ELSE SplitRuns(Tail(s), Append(acc, <<c>>))

(* the reduce of lines 53-59: every non-blank text run, trimmed, with the  *)
(* punctuation run that follows it.                                        *)
RECURSIVE ReduceParts(_, _, _)
ReduceParts(arr, k, acc) ==
    IF k > Len(arr) THEN acc
    ELSE LET curr == arr[k]
             punct == IF k + 1 <= Len(arr) THEN arr[k + 1] ELSE <<>>
         IN  IF Trim(curr) # <<>>
             THEN ReduceParts(arr, k + 2, Append(acc, Trim(curr) \o punct))
             ELSE ReduceParts(arr, k + 2, acc)

Parts(text) == ReduceParts(SplitRuns(text, << <<>> >>), 1, <<>>)

FinalParts(text) == IF Len(Parts(text)) > 0 THEN Parts(text) ELSE <<text>>

RECURSIVE SumLen(_, _)
SumLen(ps, k) == IF k = 0 THEN 0 ELSE Len(ps[k]) + SumLen(ps, k - 1)

(* a count of the characters of the text as given (untrimmed, with the     *)
(* punctuation of blank segments)                                          *)
TotalCharsOfText(text) == Len(text)

TotalChars(text) == SumLen(FinalParts(text), Len(FinalParts(text)))

(* scene.audioDuration || 5 : an absent duration is modelled as 0.          *)
EffDuration(sc) == IF sc.dur # 0 THEN sc.dur ELSE DefaultDuration

(***************************************************************************)
(* Numbers.  part.length / totalChars, its product with duration and the   *)
(* running sum currentTime are floating-point operations, each rounded to  *)
(* the nearest representable value, ties to even.  The model keeps the     *)
(* rounding but narrows the significand from the 53 bits of a JavaScript   *)
(* number to SigBits bits.  A number is the fraction n / d, d a power of 2.*)
(* Only values in [0, 2^SigBits) occur.                                    *)
(***************************************************************************)
RECURSIVE Pow2(_)
Pow2(k) == IF k = 0 THEN 1 ELSE 2 * Pow2(k - 1)

FInt(k) == [n |-> k, d |-> 1]

(* the least significand of SigBits bits                                   *)
HalfRange == Pow2(SigBits - 1)

(* n / d scaled by the least power of two p that brings it to HalfRange or *)
(* above: y = n * p                                                        *)
RECURSIVE FNorm(_, _, _)
FNorm(y, d, p) ==
    IF y >= HalfRange * d THEN [y |-> y, p |-> p] ELSE FNorm(2 * y, d, 2 * p)

(* y / d rounded to the nearest integer, ties to the even one, over p      *)
FNearest(y, d, p) ==
    LET f == y \div d
        r == y % d
    IN  [n |-> IF 2 * r > d \/ (2 * r = d /\ f % 2 = 1) THEN f + 1 ELSE f,
         d |-> p]

(* the fraction n / d rounded to SigBits significant bits                  *)
FRound(n, d) ==
    IF n = 0 THEN FInt(0)
    ELSE LET z == FNorm(n, d, 1) IN FNearest(z.y, d, z.p)

FDiv(a, b) == FRound(a, b)

FMul(x, k) == FRound(x.n * k, x.d)

FAdd(x, y) ==
    LET d == IF x.d >= y.d THEN x.d ELSE y.d
    IN  FRound(x.n * (d \div x.d) + y.n * (d \div y.d), d)

FEq(x, y) == x.n * y.d = y.n * x.d

FLeq(x, y) == x.n * y.d <= y.n * x.d

(* lines 64-77: the chunks and their times                                 *)
Subtitles(text, duration) ==
    LET ps == FinalParts(text)
        total == TotalChars(text)
        partDuration(k) ==
            IF total > 0 THEN FMul(FDiv(Len(ps[k]), total), duration)
            ELSE FInt(duration)
        currentTime[k \in 1..(Len(ps) + 1)] ==
            IF k = 1 THEN FInt(0) ELSE FAdd(currentTime[k - 1], partDuration(k - 1))
    IN  [k \in 1..Len(ps) |->
            [text |-> ps[k], start |-> currentTime[k],
             end |-> FAdd(currentTime[k], partDuration(k))]]


(***************************************************************************)
(* Scenes.  dur = 0 models an absent audioDuration.                        *)
(***************************************************************************)
Durations == {0, 2}

Narrations == {<<"a", ".", " ", "b", "!">>}

SceneKinds ==
    [audio : BOOLEAN, video : BOOLEAN, image : BOOLEAN,
     dur : Durations, text : Narrations]

(* The sequencer and the recorder never read a scene's imageUrl (only its *)
(* videoUrl decides whether the clip plays), nor its narration.            *)
SequencerKinds == {k \in SceneKinds : ~k.image}

SceneLists(kinds, max) == UNION {[1..n -> kinds] : n \in 0..max}

HasScene(i) == i >= 0 /\ i < Len(scenes)

SceneAt(i) == scenes[i + 1]

(* the chunks of each kind of scene, computed once                         *)
KindSubtitles ==
    {[kind |-> sc, chunks |-> Subtitles(sc.text, EffDuration(sc))] :
        sc \in SceneKinds}

SubtitlesOf(idx) ==
    LET sc == SceneAt(idx)
    IN  IF sc \in SceneKinds
        THEN (CHOOSE m \in KindSubtitles : m.kind = sc).chunks
        ELSE Subtitles(sc.text, EffDuration(sc))

(* currentSubtitles as a render with currentSceneIndex = idx computes it   *)
(* (line 48: no chunks without a current scene)                            *)
MemoSubtitles(idx) == IF HasScene(idx) THEN SubtitlesOf(idx) ELSE <<>>

(***************************************************************************)
(* Media element helpers.                                                  *)
(***************************************************************************)
NoSrc == -1

(* HTMLMediaElement.pause() on the narration element                       *)
PauseNarr(n) ==
    IF n.st \in {"loading", "playing"} THEN [n EXCEPT !.st = "paused"] ELSE n

(* the promise of the play() call the narration element is now loading for *)
LivePlay(p) ==
    narr.st = "loading" /\ p.scene = narr.src /\ p.sess = narr.sess

(* no subtitle drawn (a chunk's text is a sequence of characters)         *)
NoSub == <<"none">>

(* no image drawn, hence no zoom factor                                    *)
NoZoom == [n |-> 0, d |-> 1]

DwellTimers(ts) == {t \in ts : t.kind = "dwell"}

(* a cleanup that clears nothing                                           *)
SceneEffectKeepsTimers(ts) == ts

(* the cleanup returned by the scene effect: clearTimeout(t)               *)
SceneEffectCleanup(ts) == ts \ DwellTimers(ts)

(***************************************************************************)
(* Initial state: the component has just been mounted.                     *)
(***************************************************************************)
(* no production run, no service call, nothing stored                     *)
NoProduction ==
    [pc |-> "idle", key |-> FALSE, scenes |-> <<>>, audioTasks |-> <<>>,
     visualTasks |-> <<>>, i |-> 0, isBusy |-> FALSE, failedCount |-> 0,
     videoQuotaExhausted |-> FALSE, showPlayer |-> FALSE, alert |-> FALSE,
     calls |-> <<>>, runs |-> 0]

(* no error caught yet: let lastError = null (line 291)                    *)
NoError == "null"

NoAudioGen ==
    [pc |-> "idle", text |-> <<>>, voiceName |-> "none", attempt |-> 0,
     lastError |-> NoError, requests |-> <<>>, failures |-> <<>>,
     result |-> 0, thrown |-> NoError]

NoVideoPoll == [pc |-> "idle", attempts |-> 0, done |-> FALSE, polls |-> 0]

(* localStorage without the item of STORAGE_KEY; now stands for Date.now() *)
EmptyStorage == [present |-> FALSE, text |-> <<>>, now |-> 0]

ServicesIdle ==
    /\ production = NoProduction
    /\ audioGen = NoAudioGen
    /\ videoPoll = NoVideoPoll
    /\ storage = EmptyStorage

PlayerInit(lists, traced) ==
    /\ scenes \in lists
    /\ mounted = TRUE
    /\ currentSceneIndex = 0
    /\ currentSubtitles = MemoSubtitles(0)
    /\ isPlaying = FALSE
    /\ isRecording = FALSE
    /\ narr = [st |-> "idle", src |-> NoSrc, sess |-> 0, pos |-> 0]
    /\ plays = {}
    /\ bgm = "paused"
    /\ video = [src |-> NoSrc, ready |-> FALSE, paused |-> TRUE]
    /\ img = [src |-> NoSrc, ready |-> FALSE]
    /\ loop = [on |-> FALSE, scene |-> 0, playing |-> FALSE]
    /\ timers = {}
    /\ endedRec = FALSE
    /\ audioCtx = "none"
    /\ recorders = <<>>
    /\ mediaRecorderRef = 0
    /\ recordedChunks = <<>>
    /\ files = <<>>
    /\ session = 0
    /\ hist = [stale |-> FALSE, log |-> <<>>, alert |-> FALSE,
               draw |-> [bg |-> "none", sub |-> NoSub, at |-> 0,
                         zoom |-> NoZoom],
               now |-> 0, sceneStartTime |-> 0,
               traced |-> traced, cur |-> <<>>, curRec |-> FALSE,
               prev |-> <<>>, prevRec |-> FALSE]

InitTraced(lists, traced) ==
    /\ ServicesIdle
    /\ PlayerInit(lists, traced)

InitWith(lists) == InitTraced(lists, FALSE)

(***************************************************************************)
(* The trace of a session (kept when hist.traced): one entry per event     *)
(* (startPlayback, a play() promise settling, 'ended', a timer firing,     *)
(* close) with what the sequencer shows after it: currentSceneIndex,       *)
(* isPlaying and the timers then pending.  cur is the trace of the session *)
(* begun last, prev that of the session before it; curRec and prevRec are  *)
(* the arguments of their startPlayback.                                   *)
(***************************************************************************)
TimersShown(ts) ==
    {[kind |-> t.kind, scene |-> t.scene, delay |-> t.delay] : t \in ts}

Entry(ev) ==
    [ev |-> ev, index |-> currentSceneIndex', playing |-> isPlaying',
     timers |-> TimersShown(timers')]

Logged(h, ev) == IF h.traced THEN [h EXCEPT !.cur = Append(@, Entry(ev))] ELSE h

(* sceneStartTimeRef.current = Date.now() (line 182), when the body of the *)
(* scene effect runs for scene idx (line 179)                              *)
SceneStarted(h, idx, playing) ==
    IF playing /\ HasScene(idx) THEN [h EXCEPT !.sceneStartTime = h.now] ELSE h

(***************************************************************************)
(* The body of the scene effect for scene idx (lines 181-216), run in a    *)
(* render whose isRecording is rec, with ts the timers left pending, n the *)
(* narration element and sess the session.                                *)
(***************************************************************************)
(* a slip: a scene with a clip leaves the previous image attached          *)
LoadVisualsKeepsImage(sc, idx) ==
    IF sc.video
    THEN /\ video' = [src |-> idx, ready |-> FALSE, paused |-> FALSE]
         /\ img' = img
    ELSE IF sc.image
    THEN /\ img' = [src |-> idx, ready |-> FALSE]
         /\ video' = [video EXCEPT !.paused = TRUE, !.src = NoSrc]
    ELSE /\ img' = [src |-> NoSrc, ready |-> FALSE]
         /\ video' = [video EXCEPT !.paused = TRUE]

(* a slip: a scene with neither clip nor image leaves the clip running     *)
LoadVisualsKeepsClip(sc, idx) ==
    IF sc.video
    THEN /\ video' = [src |-> idx, ready |-> FALSE, paused |-> FALSE]
         /\ img' = [src |-> NoSrc, ready |-> FALSE]
    ELSE IF sc.image
    THEN /\ img' = [src |-> idx, ready |-> FALSE]
         /\ video' = [video EXCEPT !.paused = TRUE, !.src = NoSrc]
    ELSE /\ img' = [src |-> NoSrc, ready |-> FALSE]
         /\ video' = video

LoadVisuals(sc, idx) ==
    IF sc.video
    THEN /\ video' = [src |-> idx, ready |-> FALSE, paused |-> FALSE]
         /\ img' = [src |-> NoSrc, ready |-> FALSE]
    ELSE IF sc.image
    THEN /\ img' = [src |-> idx, ready |-> FALSE]
         /\ video' = [video EXCEPT !.paused = TRUE, !.src = NoSrc]
    ELSE /\ img' = [src |-> NoSrc, ready |-> FALSE]
         /\ video' = [video EXCEPT !.paused = TRUE]

(* a slip: a recording session sets up no 5-second timer                   *)
PlayAudioNoDwellWhenRecording(sc, idx, rec, ts, n, sess) ==
    IF sc.audio
    THEN /\ narr' = [st |-> "loading", src |-> idx, sess |-> sess, pos |-> 0]
         /\ plays' = plays \cup {[scene |-> idx, delay |-> EffDuration(sc),
                                  rec |-> rec, sess |-> sess]}
         /\ timers' = ts
    ELSE /\ timers' = IF rec THEN ts
                      ELSE ts \cup {[kind |-> "dwell", scene |-> idx,
                                     delay |-> DwellSeconds, rec |-> rec,
                                     sess |-> sess]}
         /\ narr' = n
         /\ plays' = plays

(* a slip: the dwell timer is scheduled for every scene, with or without   *)
(* narration audio                                                         *)
PlayAudioAlwaysTimer(sc, idx, rec, ts, n, sess) ==
    LET dwell == [kind |-> "dwell", scene |-> idx, delay |-> DwellSeconds,
                  rec |-> rec, sess |-> sess]
    IN  IF sc.audio
        THEN /\ narr' = [st |-> "loading", src |-> idx, sess |-> sess, pos |-> 0]
             /\ plays' = plays \cup {[scene |-> idx, delay |-> EffDuration(sc),
                                      rec |-> rec, sess |-> sess]}
             /\ timers' = ts \cup {dwell}
        ELSE /\ timers' = ts \cup {dwell}
             /\ narr' = n
             /\ plays' = plays

PlayAudio(sc, idx, rec, ts, n, sess) ==
    IF sc.audio
    THEN /\ narr' = [st |-> "loading", src |-> idx, sess |-> sess, pos |-> 0]
         /\ plays' = plays \cup {[scene |-> idx, delay |-> EffDuration(sc),
                                  rec |-> rec, sess |-> sess]}
         /\ timers' = ts
    ELSE /\ timers' = ts \cup {[kind |-> "dwell", scene |-> idx,
                                delay |-> DwellSeconds, rec |-> rec,
                                sess |-> sess]}
         /\ narr' = n
         /\ plays' = plays

EnterScene(idx, rec, ts, n, sess) ==
    /\ LoadVisuals(SceneAt(idx), idx)
    /\ PlayAudio(SceneAt(idx), idx, rec, ts, n, sess)

(* a slip: an effect that depends on isPlaying alone does not run again    *)
(* when currentSceneIndex changes; only scene 0 is ever entered            *)
SceneEffectOnStartOnly(idx, playing, rec, ts, n, sess) ==
    IF playing /\ HasScene(idx) /\ idx = 0
    THEN EnterScene(idx, rec, SceneEffectCleanup(ts), n, sess)
    ELSE /\ timers' = ts
         /\ narr' = n
         /\ UNCHANGED <<plays, video, img>>

(* the scene effect after a render in which its dependencies changed       *)
SceneEffect(idx, playing, rec, ts, n, sess) ==
    IF playing /\ HasScene(idx)
    THEN EnterScene(idx, rec, SceneEffectCleanup(ts), n, sess)
    ELSE /\ timers' = SceneEffectCleanup(ts)
         /\ narr' = n
         /\ UNCHANGED <<plays, video, img>>


(***************************************************************************)
(* stopRecording (lines 322-340): stop() makes the recorder inactive at    *)
(* once and queues its last dataavailable and its stop event; onstop is    *)
(* attached to the recorder stopped.                                       *)
(***************************************************************************)
StopRecording(recs, ref) ==
    IF ref # 0 /\ recs[ref].st = "recording"
    THEN [recs EXCEPT ![ref].st = "stopping", ![ref].onstop = TRUE]
    ELSE recs

(* what finishPlayback releases, in the order of its statements; rec is    *)
(* the isRecording of the closure that runs it                             *)
FinishOrder(rec) ==
    <<"bgm", "narration", "video", "raf">>
        \o (IF rec THEN <<"recorder">> ELSE <<>>)

(* the isRecording seen by finishPlayback when it runs in a closure that   *)
(* captured closureRec                                                     *)
FinishSeesRecording(closureRec) == closureRec

(* finishPlayback (lines 241-251), run on the narration element value n   *)
FinishPlayback(closureRec, n) ==
    LET rec == FinishSeesRecording(closureRec)
    IN  /\ isPlaying' = FALSE
        /\ bgm' = "paused"
        /\ narr' = PauseNarr(n)
        /\ video' = [video EXCEPT !.paused = TRUE]
        /\ loop' = [loop EXCEPT !.on = FALSE]
        /\ recorders' = IF rec THEN StopRecording(recorders, mediaRecorderRef)
                        ELSE recorders

(* the re-render after finishPlayback: the scene effect's cleanup runs     *)
(* only if isPlaying changed, and its body returns at line 179             *)
TimersAfterFinish(ts) == IF isPlaying THEN SceneEffectCleanup(ts) ELSE ts

FinishLog(closureRec, ts) ==
    FinishOrder(FinishSeesRecording(closureRec))
        \o (IF isPlaying /\ DwellTimers(ts) # {} THEN <<"timers">> ELSE <<>>)

(* an advance made by a source that does not belong to the scene now       *)
(* playing (another scene's or session's, or after the session ended)      *)
IsStale(srcScene, srcSess) ==
    ~(isPlaying /\ srcScene = currentSceneIndex /\ srcSess = session)

(***************************************************************************)
(* handleNext (lines 229-239) and the re-render it causes, called by a     *)
(* closure that captured closureRec, with ts the timers left pending.      *)
(***************************************************************************)
(* an advance that passes over a scene                                     *)
NextIndexSkipsOne(prev) == prev + 2

(* const next = prev + 1 (line 231)                                        *)
NextIndex(prev) == prev + 1

(* an off-by-one bound                                                     *)
HasNextInclusive(next) == next <= Len(scenes)

(* next < scenes.length (line 232)                                         *)
HasNext(next) == next < Len(scenes)

HandleNext(closureRec, ts, n, srcScene, srcSess, ev) ==
    LET next == NextIndex(currentSceneIndex)
    IN  IF HasNext(next)
        THEN /\ currentSceneIndex' = next
             /\ currentSubtitles' = MemoSubtitles(next)
             /\ SceneEffect(next, isPlaying, isRecording, ts, n, session)
             /\ endedRec' = isRecording
             /\ UNCHANGED <<isPlaying, bgm, loop, recorders>>
             /\ hist' = Logged(SceneStarted(
                                  [hist EXCEPT
                                     !.stale = @ \/ IsStale(srcScene, srcSess)],
                                  next, isPlaying), ev)
        ELSE /\ FinishPlayback(closureRec, n)
             /\ timers' = TimersAfterFinish(ts)
             /\ UNCHANGED <<plays, img>>
             /\ UNCHANGED <<currentSceneIndex, currentSubtitles, endedRec>>
             /\ hist' = Logged([hist EXCEPT
                                  !.stale = @ \/ IsStale(srcScene, srcSess),
                                  !.log = FinishLog(closureRec, ts)], ev)

(***************************************************************************)
(* A pending timer fires (lines 211 and 214).  After the unmount the       *)
(* state update of handleNext is dropped by React.                         *)
(***************************************************************************)
TimerFire ==
    \E t \in timers :
        IF mounted
        THEN /\ HandleNext(t.rec, timers \ {t}, narr, t.scene, t.sess, t.kind)
             /\ UNCHANGED <<serviceVars, scenes, mounted, isRecording, audioCtx,
                            mediaRecorderRef, recordedChunks, files, session>>
        ELSE /\ timers' = timers \ {t}
             /\ UNCHANGED <<serviceVars, scenes, mounted, currentSceneIndex, currentSubtitles,
                            isPlaying,
                            isRecording, narr, plays, bgm, video, img, loop,
                            endedRec, audioCtx, recorders, mediaRecorderRef,
                            recordedChunks, files, session, hist>>

(***************************************************************************)
(* The narration element fires 'ended' (lines 221-227): handleEnded is the *)
(* listener registered by the last render that changed currentSceneIndex.  *)
(***************************************************************************)
NarrationEnded ==
    /\ mounted
    /\ narr.st = "playing"
    /\ HandleNext(endedRec, timers, [narr EXCEPT !.st = "ended"],
                  narr.src, narr.sess, "ended")
    /\ UNCHANGED <<serviceVars, scenes, mounted, isRecording, audioCtx, mediaRecorderRef,
                   recordedChunks, files, session>>


(***************************************************************************)
(* startPlayback(recording) (lines 254-320), clicked on one of the start   *)
(* buttons, which are rendered only while !isPlaying (lines 407-434), and  *)
(* the render that follows.  recOk: new MediaRecorder(...) and start() do  *)
(* not throw.  The three state updates and the setIsRecording(false) of    *)
(* the catch block are batched into one render.  The await of line 281 is  *)
(* left out: the audio context is created inside a click and the code      *)
(* never suspends it, so the 'suspended' branch is not taken.              *)
(***************************************************************************)
NewRecorder == [st |-> "recording", sent |-> 0, onstop |-> FALSE]

(* renderFrame as startPlayback sees it: the callback of the render that   *)
(* showed the button, which captured that render's scene and isPlaying and *)
(* re-schedules itself (line 174)                                          *)
LoopClosure == [on |-> TRUE, scene |-> currentSceneIndex, playing |-> isPlaying]

(* the 'ended' listener after a render: the listener effect depends on     *)
(* currentSceneIndex and scenes.length only (line 227)                     *)
EndedListener(newIndex, newRec) ==
    IF newIndex # currentSceneIndex THEN newRec ELSE endedRec

(* a start button that is rendered whatever isPlaying is                   *)
StartAlwaysEnabled == mounted

(* the start buttons exist only in the overlay rendered while !isPlaying   *)
(* (lines 407-434)                                                         *)
StartEnabled == mounted /\ ~isPlaying

StartPlayback(recording, recOk) ==
    LET failed == recording /\ ~recOk
        rec == recording /\ recOk
    IN  /\ StartEnabled
        /\ session' = session + 1
        /\ isPlaying' = TRUE
        /\ currentSceneIndex' = 0
        /\ currentSubtitles' = MemoSubtitles(0)
        /\ isRecording' = rec
        /\ recordedChunks' = <<>>
        /\ audioCtx' = IF recording /\ audioCtx \in {"none", "closed"}
                       THEN "running" ELSE audioCtx
        /\ recorders' = IF rec THEN Append(recorders, NewRecorder) ELSE recorders
        /\ mediaRecorderRef' = IF rec THEN Len(recorders) + 1 ELSE mediaRecorderRef
        /\ loop' = IF failed THEN loop ELSE LoopClosure
        /\ bgm' = IF failed THEN bgm ELSE "playing"
        /\ SceneEffect(0, TRUE, rec, timers, narr, session + 1)
        /\ endedRec' = EndedListener(0, rec)
        /\ hist' = Logged(SceneStarted(
                             [hist EXCEPT
                                !.log = <<>>,
                                !.alert = failed,
                                !.prev = hist.cur,
                                !.prevRec = hist.curRec,
                                !.cur = <<>>,
                                !.curRec = hist.traced /\ recording],
                             0, TRUE), "start")
        /\ UNCHANGED <<serviceVars, scenes, mounted, files>>

(***************************************************************************)
(* handleClose (lines 342-345): finishPlayback, then onClose, which makes  *)
(* the parent unmount the Player: the cleanups of the three effects run    *)
(* (lines 96-103, 215, 226).                                               *)
(***************************************************************************)
UnmountOrder ==
    <<"raf", "bgm", "narration">>
        \o (IF audioCtx = "running" THEN <<"ctx">> ELSE <<>>)
        \o (IF DwellTimers(timers) # {} THEN <<"timers">> ELSE <<>>)

HandleClose ==
    /\ mounted
    /\ FinishPlayback(isRecording, narr)
    /\ mounted' = FALSE
    /\ timers' = SceneEffectCleanup(timers)
    /\ audioCtx' = IF audioCtx = "running" THEN "closed" ELSE audioCtx
    /\ UNCHANGED <<serviceVars, scenes, currentSceneIndex, currentSubtitles, isRecording,
                   plays, img, endedRec, mediaRecorderRef, recordedChunks,
                   files, session>>
    /\ hist' = Logged([hist EXCEPT !.log =
                           IF isPlaying
                           THEN FinishOrder(FinishSeesRecording(isRecording))
                                   \o UnmountOrder
                           ELSE @], "close")

(***************************************************************************)
(* The promise of narrationRef.current.play() (line 209) settles.  A       *)
(* promise whose element was paused or given another source is rejected.   *)
(***************************************************************************)
PlayResolved ==
    \E p \in plays :
        /\ LivePlay(p)
        /\ narr' = [narr EXCEPT !.st = "playing"]
        /\ plays' = plays \ {p}
        /\ UNCHANGED <<serviceVars, scenes, mounted, currentSceneIndex, currentSubtitles,
                       isPlaying, isRecording, bgm, video, img, loop, timers,
                       endedRec, audioCtx, recorders, mediaRecorderRef,
                       recordedChunks, files, session>>
        /\ hist' = Logged(hist, "resolved")

(* a fallback that ignores the scene's audioDuration                        *)
FallbackAlwaysDefault(p) ==
    [kind |-> "fallback", scene |-> p.scene, delay |-> DefaultDuration,
     rec |-> p.rec, sess |-> p.sess]

(* the catch callback of line 209-212                                      *)
FallbackTimer(p) ==
    [kind |-> "fallback", scene |-> p.scene, delay |-> p.delay,
     rec |-> p.rec, sess |-> p.sess]

PlayRejected ==
    \E p \in plays :
        /\ narr' = IF LivePlay(p) THEN [narr EXCEPT !.st = "failed"] ELSE narr
        /\ plays' = plays \ {p}
        /\ timers' = timers \cup {FallbackTimer(p)}
        /\ UNCHANGED <<serviceVars, scenes, mounted, currentSceneIndex, currentSubtitles,
                       isPlaying, isRecording, bgm, video, img, loop, endedRec,
                       audioCtx, recorders, mediaRecorderRef, recordedChunks,
                       files, session>>
        /\ hist' = Logged(hist, "rejected")

(* the narration's playback position moves on                              *)
NarrationTime ==
    /\ narr.st = "playing"
    /\ narr.pos < MaxPos
    /\ narr' = [narr EXCEPT !.pos = @ + 1]
    /\ UNCHANGED <<serviceVars, scenes, mounted, currentSceneIndex, currentSubtitles,
                   isPlaying, isRecording,
                   plays, bgm, video, img, loop, timers, endedRec, audioCtx,
                   recorders, mediaRecorderRef, recordedChunks, files, session,
                   hist>>

(* the clip or the image becomes ready to draw (it may also never do so)   *)
VideoLoaded ==
    /\ video.src # NoSrc
    /\ ~video.ready
    /\ video' = [video EXCEPT !.ready = TRUE]
    /\ UNCHANGED <<serviceVars, scenes, mounted, currentSceneIndex, currentSubtitles,
                   isPlaying, isRecording,
                   narr, plays, bgm, img, loop, timers, endedRec, audioCtx,
                   recorders, mediaRecorderRef, recordedChunks, files, session,
                   hist>>

ImageLoaded ==
    /\ img.src # NoSrc
    /\ ~img.ready
    /\ img' = [img EXCEPT !.ready = TRUE]
    /\ UNCHANGED <<serviceVars, scenes, mounted, currentSceneIndex, currentSubtitles,
                   isPlaying, isRecording,
                   narr, plays, bgm, video, loop, timers, endedRec, audioCtx,
                   recorders, mediaRecorderRef, recordedChunks, files, session,
                   hist>>


(***************************************************************************)
(* renderFrame (lines 107-175): one tick of the loop that startPlayback    *)
(* scheduled.  The closure's currentScene, currentSubtitles and isPlaying  *)
(* are those of loop; the refs are read as they are now.                   *)
(***************************************************************************)
(* a tick that draws a clip that is ready even when it is paused           *)
BackgroundIgnoresPaused ==
    IF video.ready THEN "video"
    ELSE IF img.ready THEN "image"
    ELSE "fill"

Background ==
    IF video.ready /\ ~video.paused THEN "video"
    ELSE IF img.ready THEN "image"
    ELSE "fill"

(* currentSubtitles.find(s => audioTime >= s.start && audioTime <= s.end)  *)
FindActive(subs, t) ==
    LET act == {k \in DOMAIN subs :
                   FLeq(subs[k].start, FInt(t)) /\ FLeq(FInt(t), subs[k].end)}
    IN  IF act = {} THEN 0 ELSE CHOOSE k \in act : \A j \in act : k <= j

ActiveSub(idx, playing, t) ==
    IF HasScene(idx) /\ playing
    THEN LET k == FindActive(SubtitlesOf(idx), t)
         IN  IF k = 0 THEN NoSub ELSE SubtitlesOf(idx)[k].text
    ELSE NoSub

(* (currentScene?.audioDuration || 5) of line 135, in seconds, for a       *)
(* closure whose currentScene is scene idx                                 *)
ZoomDuration(idx) ==
    IF HasScene(idx) THEN EffDuration(SceneAt(idx)) ELSE DefaultDuration

(* lines 137 and 140: scale = 1.0 + min(elapsed / duration, 1.0) * 0.15,   *)
(* as the fraction (100 * duration + 15 * min(elapsed, duration)) over     *)
(* (100 * duration)                                                        *)
Scale(elapsed, duration) ==
    [n |-> 100 * duration
             + 15 * (IF elapsed < duration THEN elapsed ELSE duration),
     d |-> 100 * duration]

(* line 136: elapsed = now - sceneStartTimeRef.current                     *)
Elapsed == hist.now - hist.sceneStartTime

RenderFrame ==
    /\ loop.on
    /\ mounted
    /\ hist' = [hist EXCEPT
                  !.draw = [bg |-> Background,
                            sub |-> ActiveSub(loop.scene, loop.playing, narr.pos),
                            at |-> currentSceneIndex,
                            zoom |-> IF Background = "image"
                                     THEN Scale(Elapsed, ZoomDuration(loop.scene))
                                     ELSE NoZoom]]
    /\ UNCHANGED <<serviceVars, scenes, mounted, currentSceneIndex, currentSubtitles,
                   isPlaying, isRecording,
                   narr, plays, bgm, video, img, loop, timers, endedRec,
                   audioCtx, recorders, mediaRecorderRef, recordedChunks, files,
                   session>>

(* Date.now() moves on by a second                                         *)
ClockTick ==
    /\ hist.now < MaxNow
    /\ hist' = [hist EXCEPT !.now = @ + 1]
    /\ UNCHANGED <<serviceVars, scenes, mounted, currentSceneIndex, currentSubtitles,
                   isPlaying, isRecording,
                   narr, plays, bgm, video, img, loop, timers, endedRec,
                   audioCtx, recorders, mediaRecorderRef, recordedChunks, files,
                   session>>

(***************************************************************************)
(* The encoder.  recorder.start() is called without a timeslice (line      *)
(* 306), so a recorder delivers its data in one fragment, when it is       *)
(* stopped: one task fires dataavailable (lines 303-305) and then 'stop',  *)
(* whose handler is the onstop of lines 325-338.  sent counts the          *)
(* recorder's fragments that had data.                                     *)
(***************************************************************************)
Fragment(r, k) == <<r, k>>

(* if (e.data.size > 0) recordedChunksRef.current.push(e.data)             *)
OnDataAvailable(chunks, r, k, size) ==
    IF size > 0 THEN Append(chunks, Fragment(r, k)) ELSE chunks

Delivered(rec, size) == IF size > 0 THEN rec.sent + 1 ELSE rec.sent

RecorderStopped ==
    \E r \in DOMAIN recorders, size \in {0, 1} :
        LET chunks == OnDataAvailable(recordedChunks, r,
                                      recorders[r].sent + 1, size)
        IN  /\ recorders[r].st = "stopping"
            /\ recorders' = [recorders EXCEPT
                               ![r].sent = Delivered(recorders[r], size),
                               ![r].st = "inactive"]
            /\ recordedChunks' = chunks
            /\ files' = IF recorders[r].onstop
                        THEN Append(files, [by |-> r, data |-> chunks])
                        ELSE files
            /\ isRecording' = IF recorders[r].onstop /\ mounted
                              THEN FALSE ELSE isRecording
            /\ UNCHANGED <<serviceVars, scenes, mounted, currentSceneIndex, currentSubtitles,
                            isPlaying, narr,
                           plays, bgm, video, img, loop, timers, endedRec,
                           audioCtx, mediaRecorderRef, session, hist>>

(***************************************************************************)
(* The specifications.                                                     *)
(*                                                                         *)
(* Spec: the sequencer, the media elements and the recorder.  The render   *)
(* loop is started and cancelled but its ticks are left out: RenderFrame,  *)
(* NarrationTime, VideoLoaded and ImageLoaded write only hist.draw,        *)
(* narr.pos, video.ready and img.ready, which no other action reads.       *)
(*                                                                         *)
(* SeqSpec: the sequencer and the media elements alone, in preview         *)
(* sessions and in recording sessions whose encoder cannot be created, so  *)
(* that no recorder exists.  The sequencer reads nothing the recorder      *)
(* writes: isRecording and the recorders only decide which recorder        *)
(* finishPlayback stops.                                                   *)
(*                                                                         *)
(* RenderSpec: the sequencer, the media elements and the render loop of    *)
(* the first preview session (startPlayback(false)) after the mount; the   *)
(* recorder, which the render loop never reads, is left out.               *)
(***************************************************************************)
Init == InitWith(SceneLists(SequencerKinds, MaxScenes))

Next ==
    \/ \E recording \in BOOLEAN, recOk \in BOOLEAN :
          session < MaxSessions /\ StartPlayback(recording, recOk)
    \/ HandleClose
    \/ TimerFire
    \/ NarrationEnded
    \/ PlayResolved
    \/ PlayRejected
    \/ RecorderStopped

Spec == Init /\ [][Next]_vars

SeqInit == InitWith(SceneLists(SequencerKinds, MaxSeqScenes))

SeqNext ==
    \/ \E recording \in BOOLEAN :
          session < MaxSeqSessions /\ StartPlayback(recording, ~recording)
    \/ HandleClose
    \/ TimerFire
    \/ NarrationEnded
    \/ PlayResolved
    \/ PlayRejected

SeqSpec == SeqInit /\ [][SeqNext]_vars

RenderInit == InitWith(SceneLists(SceneKinds, MaxRenderScenes))

RenderNext ==
    \/ session = 0 /\ StartPlayback(FALSE, TRUE)
    \/ HandleClose
    \/ TimerFire
    \/ NarrationEnded
    \/ PlayResolved
    \/ PlayRejected
    \/ NarrationTime
    \/ VideoLoaded
    \/ ImageLoaded
    \/ RenderFrame

RenderSpec == RenderInit /\ [][RenderNext]_vars


(***************************************************************************)
(* TracedSpec: Spec on scenes without clips, with the trace of each        *)
(* session kept, so that a session can be set against the session before   *)
(* it on the same scene list.  The audioDuration of a scene without audio  *)
(* is read by the chunker and the zoom only, so it is left absent.  Two    *)
(* sessions are played, the pair that is compared: startPlayback is taken  *)
(* while no session before the last one has been traced.                   *)
(***************************************************************************)
TracedKinds == {k \in SequencerKinds : ~k.video /\ (k.audio \/ k.dur = 0)}

TracedInit == InitTraced(SceneLists(TracedKinds, MaxTracedScenes), TRUE)

TracedNext ==
    \/ \E recording \in BOOLEAN, recOk \in BOOLEAN :
          hist.prev = <<>> /\ StartPlayback(recording, recOk)
    \/ HandleClose
    \/ TimerFire
    \/ NarrationEnded
    \/ PlayResolved
    \/ PlayRejected
    \/ RecorderStopped

TracedSpec == TracedInit /\ [][TracedNext]_vars

(***************************************************************************)
(* ZoomSpec: the first preview session after the mount on scenes shown as  *)
(* still images, with the clock: the sequencer, the image element and the  *)
(* render loop.  The narration's position is read by the subtitles only    *)
(* and is left at 0.                                                       *)
(***************************************************************************)
ZoomKinds == {k \in SceneKinds : k.image /\ ~k.video}

ZoomInit == InitWith(SceneLists(ZoomKinds, MaxZoomScenes))

ZoomNext ==
    \/ session = 0 /\ StartPlayback(FALSE, TRUE)
    \/ TimerFire
    \/ NarrationEnded
    \/ PlayResolved
    \/ PlayRejected
    \/ ImageLoaded
    \/ ClockTick
    \/ RenderFrame

ZoomSpec == ZoomInit /\ [][ZoomNext]_vars

(***************************************************************************)
(* ChunkSpec: the subtitle chunker on every narration text of at most      *)
(* MaxTextLen characters and every duration.  The scene under test is the  *)
(* only scene or follows a first scene; the scenes are silent, so that the *)
(* renders that recompute currentSubtitles are those of the mount, of      *)
(* startPlayback and of the 5-second advance.                              *)
(***************************************************************************)
ChunkChars == {"a", ".", " "}

Texts == UNION {[1..n -> ChunkChars] : n \in 0..MaxTextLen}

ChunkKinds ==
    [audio : {FALSE}, video : {FALSE}, image : {FALSE},
     dur : Durations, text : Texts]

FirstScene ==
    [audio |-> FALSE, video |-> FALSE, image |-> FALSE, dur |-> 0,
     text |-> <<"a", ".", " ", "b", "!">>]

ChunkLists == {<<k>> : k \in ChunkKinds} \cup {<<FirstScene, k>> : k \in ChunkKinds}

ChunkInit == InitWith(ChunkLists)

ChunkNext ==
    \/ session < MaxChunkSessions /\ StartPlayback(FALSE, TRUE)
    \/ TimerFire

ChunkSpec == ChunkInit /\ [][ChunkNext]_vars

(***************************************************************************)
(* FairSeqSpec: SeqSpec under the scheduling the platform guarantees: a    *)
(* pending timer fires, a playing narration ends, a play() promise         *)
(* settles.  The user's clicks (start, close) are not fair.                *)
(***************************************************************************)
FairSeqSpec ==
    /\ SeqSpec
    /\ WF_vars(TimerFire)
    /\ WF_vars(NarrationEnded)
    /\ WF_vars(PlayResolved \/ PlayRejected)

(***************************************************************************)
(* handleStartProduction (lines 701-796): 'Generate All' in the editor.    *)
(* The run is sequential; a step of the model is what runs between two     *)
(* awaits: the continuation of a settled service call up to the next call. *)
(* While isBusy the loading view replaces the editor (line 862), so no     *)
(* other handler runs during a run.  production.scenes is project.scenes   *)
(* (Url fields: the URL is present), calls the service calls of the run    *)
(* that have settled, in order.                                            *)
(***************************************************************************)
ProdKinds == [audio : BOOLEAN, video : BOOLEAN, image : BOOLEAN]

(* a scene of a project as the editor holds it between runs (lines 525-533, *)
(* 664-671: the isGenerating flags are false)                              *)
ProdScene(k) ==
    [audioUrl |-> k.audio, videoUrl |-> k.video, imageUrl |-> k.image,
     isGeneratingAudio |-> FALSE, isGeneratingVideo |-> FALSE,
     isGeneratingImage |-> FALSE]

Projects ==
    UNION {[1..n -> {ProdScene(k) : k \in ProdKinds}] : n \in 0..MaxProdScenes}

(* project.scenes.filter(pred), as the positions of the scenes kept        *)
NeedsAudio(sc) == ~sc.audioUrl

NeedsVisual(sc) == ~sc.videoUrl /\ ~sc.imageUrl

AudioTasks(scs) ==
    SelectSeq([j \in 1..Len(scs) |-> j], LAMBDA j : NeedsAudio(scs[j]))

VisualTasks(scs) ==
    SelectSeq([j \in 1..Len(scs) |-> j], LAMBDA j : NeedsVisual(scs[j]))

(* updateSceneStatus (lines 546-558): { ...s, ...updates } for scene id    *)
UpdateSceneStatus(scs, id, updates) ==
    [scs EXCEPT ![id] =
        [f \in DOMAIN scs[id] |->
            IF f \in DOMAIN updates THEN updates[f] ELSE scs[id][f]]]

(* a check that never recognises a quota error                             *)
IsQuotaNever(res) == FALSE

(* errStr.includes('429') || errStr.includes('RESOURCE_EXHAUSTED')         *)
IsQuota(res) == res = "quota"

(* lines 785-793: after the loops                                          *)
FinishProduction(P) ==
    [P EXCEPT !.pc = "done",
              !.isBusy = FALSE,
              !.alert = P.failedCount > 0,
              !.showPlayer = IF P.failedCount > 0 THEN @ ELSE TRUE]

(* the top of an iteration of the visual loop (lines 735-742)              *)
TopOfVisual(P) ==
    IF P.i <= Len(P.visualTasks)
    THEN [P EXCEPT !.pc = IF P.videoQuotaExhausted
                          THEN "imageWait" ELSE "videoWait",
                   !.scenes = UpdateSceneStatus(P.scenes, P.visualTasks[P.i],
                                                [isGeneratingVideo |-> TRUE])]
    ELSE FinishProduction(P)

(* the top of an iteration of the audio loop (lines 716-723)               *)
TopOfAudio(P) ==
    IF P.i <= Len(P.audioTasks)
    THEN [P EXCEPT !.pc = "audioWait",
                   !.scenes = UpdateSceneStatus(P.scenes, P.audioTasks[P.i],
                                                [isGeneratingAudio |-> TRUE])]
    ELSE TopOfVisual([P EXCEPT !.i = 1])

Called(P, scene, kind, res) ==
    Append(P.calls, [scene |-> scene, kind |-> kind, res |-> res])

(* the click, once checkApiKeyBeforeAction has let it pass (lines 702-714) *)
StartProduction ==
    /\ production.pc \in {"idle", "done"}
    /\ production.key
    /\ ~production.showPlayer
    /\ production.runs < MaxProdRuns
    /\ production' =
          TopOfAudio([production EXCEPT
                        !.isBusy = TRUE,
                        !.audioTasks = AudioTasks(production.scenes),
                        !.visualTasks = VisualTasks(production.scenes),
                        !.i = 1,
                        !.failedCount = 0,
                        !.videoQuotaExhausted = FALSE,
                        !.alert = FALSE,
                        !.calls = <<>>,
                        !.runs = @ + 1])
    /\ UNCHANGED <<playerVars, audioGen, videoPoll, storage>>

(* generateSceneAudio settles (lines 725-733)                              *)
AudioSettled ==
    \E ok \in BOOLEAN :
        LET id == production.audioTasks[production.i]
            P == [production EXCEPT
                    !.scenes =
                        IF ok
                        THEN UpdateSceneStatus(@, id,
                                 [audioUrl |-> TRUE, isGeneratingAudio |-> FALSE])
                        ELSE UpdateSceneStatus(@, id,
                                 [isGeneratingAudio |-> FALSE]),
                    !.failedCount = IF ok THEN @ ELSE @ + 1,
                    !.calls = Called(production, id, "audio",
                                     IF ok THEN "ok" ELSE "error"),
                    !.i = @ + 1]
        IN  /\ production.pc = "audioWait"
            /\ production' = TopOfAudio(P)
            /\ UNCHANGED <<playerVars, audioGen, videoPoll, storage>>

(* generateSceneVideo settles (lines 756-769); after a failure the image   *)
(* fallback is called at once (line 774)                                   *)
VideoSettled ==
    \E res \in {"ok", "quota", "error"} :
        LET id == production.visualTasks[production.i]
            logged == [production EXCEPT
                         !.calls = Called(production, id, "video", res)]
        IN  /\ production.pc = "videoWait"
            /\ production' =
                  IF res = "ok"
                  THEN TopOfVisual([logged EXCEPT
                          !.scenes = UpdateSceneStatus(@, id,
                              [videoUrl |-> TRUE, isGeneratingVideo |-> FALSE]),
                          !.i = @ + 1])
                  ELSE [logged EXCEPT
                          !.videoQuotaExhausted = @ \/ IsQuota(res),
                          !.pc = "fallbackWait"]
            /\ UNCHANGED <<playerVars, audioGen, videoPoll, storage>>

(* generateSceneImage settles (lines 746-752 and 774-781)                  *)
ImageSettled ==
    \E ok \in BOOLEAN :
        LET id == production.visualTasks[production.i]
            P == [production EXCEPT
                    !.scenes =
                        IF ok
                        THEN UpdateSceneStatus(@, id,
                                 [imageUrl |-> TRUE, isGeneratingVideo |-> FALSE])
                        ELSE UpdateSceneStatus(@, id,
                                 [isGeneratingVideo |-> FALSE]),
                    !.failedCount = IF ok THEN @ ELSE @ + 1,
                    !.calls = Called(production, id, "image",
                                     IF ok THEN "ok" ELSE "error"),
                    !.i = @ + 1]
        IN  /\ production.pc \in {"imageWait", "fallbackWait"}
            /\ production' = TopOfVisual(P)
            /\ UNCHANGED <<playerVars, audioGen, videoPoll, storage>>

(* the Player's onClose (line 886): setShowPlayer(false)                   *)
ClosePlayer ==
    /\ production.pc = "done"
    /\ production.showPlayer
    /\ production' = [production EXCEPT !.showPlayer = FALSE]
    /\ UNCHANGED <<playerVars, audioGen, videoPoll, storage>>

(***************************************************************************)
(* ProductionSpec: runs of handleStartProduction on every project of up to *)
(* MaxProdScenes scenes, with every outcome of every service call.  The    *)
(* Player is left as mounted on an empty list and takes no step.           *)
(***************************************************************************)
ProductionInit ==
    /\ PlayerInit({<<>>}, FALSE)
    /\ production \in {[NoProduction EXCEPT !.key = k, !.scenes = scs] :
                          k \in BOOLEAN, scs \in Projects}
    /\ audioGen = NoAudioGen
    /\ videoPoll = NoVideoPoll
    /\ storage = EmptyStorage

ProductionNext ==
    \/ StartProduction
    \/ AudioSettled
    \/ VideoSettled
    \/ ImageSettled
    \/ ClosePlayer

ProductionSpec == ProductionInit /\ [][ProductionNext]_vars

(***************************************************************************)
(* generateSceneAudio (vite.config.ts lines 282-339).  A step is what runs *)
(* between two awaits.  An attempt fails when generateContent rejects,     *)
(* when the response has no audio data (line 313) or when decoding throws; *)
(* an error is modelled by its message.  requests are the texts sent, in   *)
(* order, failures the messages of the attempts that failed, result the    *)
(* duration returned (0: none) and thrown the message carried by the error *)
(* thrown.                                                                 *)
(***************************************************************************)
AudioTexts == {<<"a">>, <<" ", "a", ".", " ">>}

Voices == {"Kore", "Puck"}

AudioErrors == {"429", "500", "no audio data", "decode"}

AudioDurations == {1, 2}

(* a catch that keeps the first error                                      *)
CaughtFirst(last, e) == IF last = NoError THEN e ELSE last

(* lastError = e (line 330)                                                *)
Caught(last, e) == e

(* lastError?.message || JSON.stringify(lastError) || "Unknown Error"      *)
ErrorMsg(last) == IF last = NoError THEN "Unknown Error" ELSE last

(* a request of the attempt now begun (lines 296-308)                      *)
Requested(G) == [G EXCEPT !.pc = "request",
                          !.requests = Append(@, Trim(G.text))]

CallAudio ==
    \E text \in AudioTexts, voice \in Voices :
        /\ audioGen.pc = "idle"
        /\ audioGen' = Requested([audioGen EXCEPT !.text = text,
                                                 !.voiceName = voice,
                                                 !.attempt = 1])
        /\ UNCHANGED <<playerVars, production, videoPoll, storage>>

(* the attempt yields audio: return { url, duration } (line 326)           *)
AttemptSucceeded ==
    \E d \in AudioDurations :
        /\ audioGen.pc = "request"
        /\ audioGen' = [audioGen EXCEPT !.pc = "returned", !.result = d]
        /\ UNCHANGED <<playerVars, production, videoPoll, storage>>

(* the attempt throws (lines 328-333); after the last attempt the loop     *)
(* ends and the function throws (lines 337-338)                            *)
AttemptFailed ==
    \E e \in AudioErrors :
        LET last == Caught(audioGen.lastError, e)
            G == [audioGen EXCEPT !.lastError = last,
                                  !.failures = Append(@, e)]
        IN  /\ audioGen.pc = "request"
            /\ audioGen' =
                  IF audioGen.attempt < AudioAttempts
                  THEN [G EXCEPT !.pc = "wait"]
                  ELSE [G EXCEPT !.pc = "thrown", !.thrown = ErrorMsg(last)]
            /\ UNCHANGED <<playerVars, production, videoPoll, storage>>

(* the second of line 332 is over: attempt++ and the next request          *)
RetryAudio ==
    /\ audioGen.pc = "wait"
    /\ audioGen' = Requested([audioGen EXCEPT !.attempt = @ + 1])
    /\ UNCHANGED <<playerVars, production, videoPoll, storage>>

(***************************************************************************)
(* AudioSpec: one call of generateSceneAudio with every text, voice and    *)
(* outcome of each attempt.                                                *)
(***************************************************************************)
AudioInit ==
    /\ PlayerInit({<<>>}, FALSE)
    /\ ServicesIdle

AudioNext ==
    \/ CallAudio
    \/ AttemptSucceeded
    \/ AttemptFailed
    \/ RetryAudio

AudioSpec == AudioInit /\ [][AudioNext]_vars

(***************************************************************************)
(* The polling loop of generateSceneVideo (vite.config.ts lines 208-224).  *)
(* done is operation.done, attempts the loop's counter, polls the number   *)
(* of calls of getVideosOperation made.  A call that rejects ends the      *)
(* function with its error ("failed").                                     *)
(***************************************************************************)
(* a check that lets one more poll pass                                    *)
TimedOutLate(attempts) == attempts > PollLimit + 1

(* if (attempts > 30) (line 220)                                           *)
TimedOut(attempts) == attempts > PollLimit

(* the loop's condition and the check of line 220, up to the next await    *)
LoopTop(V) ==
    IF V.done THEN [V EXCEPT !.pc = "exited"]
    ELSE IF TimedOut(V.attempts) THEN [V EXCEPT !.pc = "timeout"]
    ELSE [V EXCEPT !.pc = "sleep"]

(* generateSceneVideo is called: ai.models.generateVideos (line 208)       *)
CallVideo ==
    /\ videoPoll.pc = "idle"
    /\ videoPoll' = [videoPoll EXCEPT !.pc = "generate"]
    /\ UNCHANGED <<playerVars, production, audioGen, storage>>

(* generateVideos settles: the operation, already done or not, or an error *)
GenerateSettled ==
    \E res \in {"done", "pending", "rejected"} :
        /\ videoPoll.pc = "generate"
        /\ videoPoll' =
              IF res = "rejected" THEN [videoPoll EXCEPT !.pc = "failed"]
              ELSE LoopTop([videoPoll EXCEPT !.done = (res = "done")])
        /\ UNCHANGED <<playerVars, production, audioGen, storage>>

(* the five seconds of line 221 are over: getVideosOperation is called     *)
SleepOver ==
    /\ videoPoll.pc = "sleep"
    /\ videoPoll' = [videoPoll EXCEPT !.pc = "status", !.polls = @ + 1]
    /\ UNCHANGED <<playerVars, production, audioGen, storage>>

(* getVideosOperation settles (lines 222-223)                              *)
StatusSettled ==
    \E res \in {"done", "pending", "rejected"} :
        /\ videoPoll.pc = "status"
        /\ videoPoll' =
              IF res = "rejected" THEN [videoPoll EXCEPT !.pc = "failed"]
              ELSE LoopTop([videoPoll EXCEPT !.done = (res = "done"),
                                             !.attempts = @ + 1])
        /\ UNCHANGED <<playerVars, production, audioGen, storage>>

(***************************************************************************)
(* PollSpec: one call of generateSceneVideo up to the end of its polling   *)
(* loop.  FairPollSpec: every timer fires and every request settles.       *)
(***************************************************************************)
PollInit ==
    /\ PlayerInit({<<>>}, FALSE)
    /\ ServicesIdle

PollNext ==
    \/ CallVideo
    \/ GenerateSettled
    \/ SleepOver
    \/ StatusSettled

PollSpec == PollInit /\ [][PollNext]_vars

FairPollSpec ==
    /\ PollSpec
    /\ WF_vars(GenerateSettled)
    /\ WF_vars(SleepOver)
    /\ WF_vars(StatusSettled)

(***************************************************************************)
(* The project store (vite.config.ts lines 21-62).  storage is the item of *)
(* STORAGE_KEY: absent, or the JSON text of the list, modelled as the      *)
(* sequence of the projects' fields in the order written.  writeOk: the    *)
(* localStorage.setItem of the call does not throw (it throws when the     *)
(* quota is exceeded); the catch of each function swallows the error.      *)
(***************************************************************************)
ProjectIds == {"p1", "p2", "p3"}

Titles == {"a", "b"}

(* JSON.stringify and JSON.parse of a list of projects                     *)
JsonStringify(list) ==
    [j \in DOMAIN list |-> <<list[j].id, list[j].title, list[j].updatedAt>>]

JsonParse(text) ==
    [j \in DOMAIN text |->
        [id |-> text[j][1], title |-> text[j][2], updatedAt |-> text[j][3]]]

(* getProjectsFromStorage (lines 43-50)                                    *)
GetProjectsFromStorage ==
    IF storage.present THEN JsonParse(storage.text) ELSE <<>>

(* a lookup that never finds the project                                   *)
FindIndexNever(list, id) == 0

(* existing.findIndex(p => p.id === project.id), 1-based; 0: not found     *)
FindIndex(list, id) ==
    LET found == {j \in DOMAIN list : list[j].id = id}
    IN  IF found = {} THEN 0 ELSE CHOOSE j \in found : \A k \in found : j <= k

(* localStorage.setItem(STORAGE_KEY, JSON.stringify(list)) at time now     *)
SetItem(list, now, writeOk) ==
    IF writeOk
    THEN [present |-> TRUE, text |-> JsonStringify(list), now |-> now]
    ELSE [storage EXCEPT !.now = now]

(* saveProjectToStorage (lines 23-41)                                      *)
SaveProject(id, title, writeOk) ==
    LET existing == GetProjectsFromStorage
        index == FindIndex(existing, id)
        now == storage.now + 1
        project == [id |-> id, title |-> title, updatedAt |-> now]
        list == IF index > 0 THEN [existing EXCEPT ![index] = project]
                ELSE <<project>> \o existing
    IN  /\ storage.now < MaxStorageCalls
        /\ storage' = SetItem(list, now, writeOk)
        /\ UNCHANGED <<playerVars, production, audioGen, videoPoll>>

(* deleteProjectFromStorage (lines 52-62)                                  *)
DeleteProject(id, writeOk) ==
    LET existing == GetProjectsFromStorage
        filtered == SelectSeq(existing, LAMBDA q : q.id # id)
    IN  /\ storage.now < MaxStorageCalls
        /\ storage' = SetItem(filtered, storage.now + 1, writeOk)
        /\ UNCHANGED <<playerVars, production, audioGen, videoPoll>>

SaveProjectToStorage ==
    \E id \in ProjectIds, title \in Titles, writeOk \in BOOLEAN :
        SaveProject(id, title, writeOk)

DeleteProjectFromStorage ==
    \E id \in ProjectIds, writeOk \in BOOLEAN : DeleteProject(id, writeOk)

(***************************************************************************)
(* StorageSpec: any sequence of up to MaxStorageCalls saves and deletes,   *)
(* starting from empty storage.                                            *)
(***************************************************************************)
StorageInit ==
    /\ PlayerInit({<<>>}, FALSE)
    /\ ServicesIdle

StorageNext ==
    \/ SaveProjectToStorage
    \/ DeleteProjectFromStorage

StorageSpec == StorageInit /\ [][StorageNext]_vars

(***************************************************************************)
(* FairRenderSpec: RenderSpec under the same scheduling.  Nothing makes a  *)
(* clip or an image load: VideoLoaded and ImageLoaded are not fair, an     *)
(* asset may stay unready for ever.                                        *)
(***************************************************************************)
FairRenderSpec ==
    /\ RenderSpec
    /\ WF_vars(TimerFire)
    /\ WF_vars(NarrationEnded)
    /\ WF_vars(PlayResolved \/ PlayRejected)

(***************************************************************************)
(* Properties.                                                             *)
(***************************************************************************)

(* C1: every session begun by startPlayback eventually reaches Finished    *)
(* (isPlaying = false), for every scene list, the empty one included.      *)
C1_EverySessionFinishes == isPlaying ~> ~isPlaying

(* what the code does guarantee: a session over a non-empty scene list     *)
(* eventually finishes                                                     *)
C1_NonEmptySessionFinishes == (isPlaying /\ Len(scenes) > 0) ~> ~isPlaying


(* the sequencer is Finished: a session was played and ended on the        *)
(* advance past the last scene (the Player is still mounted)               *)
Finished == mounted /\ session > 0 /\ ~isPlaying

MediaStopped ==
    /\ bgm = "paused"
    /\ narr.st \notin {"loading", "playing"}
    /\ video.paused

NoRecorderRecording == \A r \in DOMAIN recorders : recorders[r].st # "recording"

(* C2: once an advance has moved past the last scene, background music,    *)
(* narration and clip are stopped, the render loop is cancelled, and the   *)
(* recorder of a recording session has been stopped.                       *)
C2_FinishedStopsEverything ==
    Finished => (MediaStopped /\ ~loop.on /\ NoRecorderRecording)

(* the part of C2 that the code keeps: media and render loop               *)
C2_FinishedStopsMedia == Finished => (MediaStopped /\ ~loop.on)


(* C3: after handleClose no advance timer remains pending, narration,      *)
(* music and clip are stopped, isPlaying is false, and no later event sets *)
(* up a scene or changes currentSceneIndex.                                *)
C3_CancelReleasesEverything ==
    /\ [](~mounted => (timers = {} /\ MediaStopped /\ ~isPlaying /\ ~loop.on))
    /\ [][~mounted => UNCHANGED <<currentSceneIndex, video, img>>]_vars

(* the parts of C3 that the code keeps                                     *)
C3_CancelStopsMedia ==
    /\ [](~mounted => (DwellTimers(timers) = {} /\ MediaStopped /\ ~isPlaying
                       /\ ~loop.on))
    /\ [][~mounted => UNCHANGED <<currentSceneIndex, video, img>>]_vars


(* the events still to come that will call handleNext: pending timers,     *)
(* unsettled play() promises (each becomes a playing narration or a        *)
(* fallback timer) and a playing narration (its 'ended')                   *)
PendingAdvances ==
    Cardinality(timers) + Cardinality(plays)
        + (IF narr.st = "playing" THEN 1 ELSE 0)

OwnScene(x) == x.scene = currentSceneIndex /\ x.sess = session

(* C4: each scene entered gets exactly one advance: while a scene plays,   *)
(* exactly one event that calls handleNext is pending, it belongs to that  *)
(* scene, none is pending otherwise, no handleNext is ever called by an    *)
(* event of another scene, and currentSceneIndex only moves by +1 (or to 0 *)
(* on startPlayback).                                                      *)
C4_ExactlyOneAdvancePerScene ==
    /\ [](mounted =>
            /\ ~hist.stale
            /\ (isPlaying /\ HasScene(currentSceneIndex)) => PendingAdvances = 1
            /\ ~(isPlaying /\ HasScene(currentSceneIndex)) => PendingAdvances = 0
            /\ \A x \in timers \cup plays : OwnScene(x)
            /\ narr.st \in {"loading", "playing"}
                  => (narr.src = currentSceneIndex /\ narr.sess = session))
    /\ [][currentSceneIndex' # currentSceneIndex =>
            \/ (isPlaying /\ currentSceneIndex' = currentSceneIndex + 1)
            \/ (currentSceneIndex' = 0 /\ session' = session + 1)]_vars

(* scene 0 had no narration and was left by its timer; scene 1 was then    *)
(* entered and its narration plays                                         *)
C4_Witness ==
    /\ mounted /\ isPlaying /\ currentSceneIndex = 1
    /\ ~SceneAt(0).audio
    /\ narr.st = "playing" /\ narr.src = 1
    /\ PendingAdvances = 1


(* the chunk of the scene now at currentSceneIndex that is active at the   *)
(* narration's playback position                                           *)
CurrentActiveSub == ActiveSub(currentSceneIndex, TRUE, narr.pos)

(* C5: on every tick of the render loop while a session is playing, if a   *)
(* chunk of the scene at currentSceneIndex is active at the narration's    *)
(* position, the tick draws that chunk's text.                             *)
C5_TickDrawsActiveSubtitle ==
    [][(RenderFrame /\ isPlaying /\ CurrentActiveSub # NoSub)
          => hist'.draw.sub = CurrentActiveSub]_vars

(* what the loop started by startPlayback does draw: never a subtitle      *)
C5_LoopDrawsNoSubtitle == hist.draw.sub = NoSub


(* every fragment with data that recorder r has delivered, in arrival order *)
FragmentsOf(r) == [k \in 1..recorders[r].sent |-> Fragment(r, k)]

FilesOf(r) == {i \in DOMAIN files : files[i].by = r}

(* every recording session is over and every stopped encoder has fired   *)
(* its events                                                              *)
RecordingsOver ==
    /\ Finished \/ ~mounted
    /\ \A r \in DOMAIN recorders : recorders[r].st # "stopping"

(* C6: stopping a recording yields exactly one downloaded file for that    *)
(* recording session, built from every fragment its encoder delivered, in  *)
(* arrival order, none dropped, duplicated or taken from another session's *)
(* encoder.                                                                *)
C6_OneFilePerRecording ==
    /\ \A i \in DOMAIN files : files[i].data = FragmentsOf(files[i].by)
    /\ \A r \in DOMAIN recorders : Cardinality(FilesOf(r)) <= 1
    /\ RecordingsOver =>
          \A r \in DOMAIN recorders : Cardinality(FilesOf(r)) = 1

(* the three parts of C6, one by one                                       *)
C6_FileIsOwnFragments ==
    \A i \in DOMAIN files : files[i].data = FragmentsOf(files[i].by)

C6_AtMostOneFile == \A r \in DOMAIN recorders : Cardinality(FilesOf(r)) <= 1

C6_StoppedHasFile ==
    \A r \in DOMAIN recorders :
        recorders[r].st = "inactive" => Cardinality(FilesOf(r)) = 1

(* nothing of a session is left: no advance pending, media stopped, the    *)
(* render loop cancelled                                                   *)
NoSessionActive ==
    /\ ~isPlaying
    /\ timers = {}
    /\ plays = {}
    /\ MediaStopped
    /\ ~loop.on

C8_RecordingOnlyWhilePlaying == mounted => (isRecording => isPlaying)

(* the part of C8 the code keeps: the flag is set only by a start that     *)
(* also sets isPlaying                                                     *)
C8_RecordingSetWithPlaying ==
    [][(~isRecording /\ isRecording') => isPlaying']_vars

(* the position of a released resource in the order timers, media,        *)
(* encoder and audio graph, render loop                                    *)
ReleaseRank(x) ==
    CASE x = "timers" -> 1
      [] x \in {"bgm", "narration", "video"} -> 2
      [] x \in {"recorder", "ctx"} -> 3
      [] x = "raf" -> 4

InReleaseOrder(log) ==
    \A i, j \in DOMAIN log : i < j => ReleaseRank(log[i]) <= ReleaseRank(log[j])

(* C9: on natural finish and on cancellation the resources are released in *)
(* the order timers, media elements, encoder and audio graph, render loop, *)
(* and no timer is pending once the teardown is over.                      *)
C9_TeardownOrder ==
    /\ InReleaseOrder(hist.log)
    /\ (Finished \/ ~mounted) => timers = {}

(* the parts of C9 the code keeps: the media elements are paused in the    *)
(* order bgm, narration, video before the render loop is cancelled, and no *)
(* dwell timer outlives the teardown                                       *)
C9_MediaBeforeLoop ==
    /\ hist.log # <<>> =>
          /\ Len(hist.log) >= 4
          /\ SubSeq(hist.log, 1, 4) = <<"bgm", "narration", "video", "raf">>
    /\ (Finished \/ ~mounted) => DwellTimers(timers) = {}

(* a session started the way startPlayback(false) starts it                *)
NormalPlayback == isPlaying /\ loop.on /\ bgm = "playing"

(* C10: when the encoder cannot be created or started in                   *)
(* startPlayback(true), the recording flag is cleared, the failure is      *)
(* reported, and the session is a normal non-recording playback or is      *)
(* cancelled.                                                              *)
C10_EncoderFailure ==
    [][(StartEnabled /\ session' = session + 1 /\ hist'.alert) =>
          /\ ~isRecording'
          /\ NormalPlayback' \/ ~isPlaying']_vars

(* the part of C10 the code keeps: the flag is cleared, the failure is     *)
(* reported and the sequencer runs                                         *)
C10_FlagClearedAndReported ==
    [][(StartEnabled /\ session' = session + 1 /\ hist'.alert) =>
          /\ ~isRecording'
          /\ isPlaying'
          /\ mediaRecorderRef' = mediaRecorderRef]_vars

(* the scene now playing has no narration audio                            *)
SilentScene ==
    /\ mounted /\ isPlaying /\ HasScene(currentSceneIndex)
    /\ ~SceneAt(currentSceneIndex).audio

(* the 5-second timer set up at the entry of the scene now playing         *)
OwnDwellTimer ==
    [kind |-> "dwell", scene |-> currentSceneIndex, delay |-> DwellSeconds,
     rec |-> isRecording, sess |-> session]

(* C11: a scene without audioUrl advances exactly once, 5 seconds after    *)
(* its entry, whatever the state of its image or clip: while it plays, its *)
(* 5-second timer is the one pending advance, the scene is left for the    *)
(* next one only by that timer, and the timer is cancelled when the scene  *)
(* is left.                                                                *)
C11_SilentSceneDwells ==
    /\ [](SilentScene =>
            /\ timers = {OwnDwellTimer}
            /\ PendingAdvances = 1)
    /\ [][(SilentScene /\ currentSceneIndex' # currentSceneIndex) =>
            /\ currentSceneIndex' = currentSceneIndex + 1
            /\ OwnDwellTimer \notin timers']_vars
    /\ [][(SilentScene /\ (~isPlaying' \/ ~mounted')) =>
            DwellTimers(timers') = {}]_vars

(* a silent scene whose clip is still loading follows a silent scene that  *)
(* showed a loaded image and was left by its timer                         *)
C11_Witness ==
    /\ SilentScene
    /\ currentSceneIndex = 1
    /\ ~SceneAt(0).audio /\ SceneAt(0).image /\ ~SceneAt(0).video
    /\ SceneAt(1).video /\ ~video.ready
    /\ timers = {OwnDwellTimer}

(* the narration of the scene now playing failed to start                  *)
FailedStart ==
    /\ mounted /\ isPlaying /\ HasScene(currentSceneIndex)
    /\ SceneAt(currentSceneIndex).audio
    /\ narr.st = "failed"
    /\ narr.src = currentSceneIndex /\ narr.sess = session

(* the fallback timers of the scene now playing                            *)
OwnFallbackTimers ==
    {t \in timers : t.kind = "fallback" /\ t.scene = currentSceneIndex
                    /\ t.sess = session}

(* C12: when the narration of a scene with audioUrl fails to start, exactly *)
(* one fallback timer of audioDuration seconds (5 when absent) is pending,  *)
(* it is the only pending advance, its firing performs the advance, and    *)
(* the scene does not wait for ever.                                       *)
C12_FailedNarrationFallsBack ==
    /\ [](FailedStart =>
            /\ Cardinality(OwnFallbackTimers) = 1
            /\ \A t \in OwnFallbackTimers :
                  t.delay = EffDuration(SceneAt(currentSceneIndex))
            /\ timers = OwnFallbackTimers
            /\ PendingAdvances = 1)
    /\ [][(FailedStart /\ mounted' /\ timers' # timers) =>
            /\ OwnFallbackTimers \cap timers' = {}
            /\ \/ currentSceneIndex' = currentSceneIndex + 1
               \/ (currentSceneIndex + 1 = Len(scenes) /\ ~isPlaying')]_vars
    /\ FailedStart ~> ~FailedStart

(* the second scene's narration failed to start; its audioDuration is 2    *)
C12_Witness ==
    /\ FailedStart
    /\ currentSceneIndex = 1
    /\ SceneAt(1).dur = 2
    /\ Cardinality(OwnFallbackTimers) = 1

(* the duration and the chunks of the scene now current                    *)
CurrentDuration == EffDuration(SceneAt(currentSceneIndex))

LastEnd == currentSubtitles[Len(currentSubtitles)].end

(* first chunk starts at 0, every later chunk starts where the previous    *)
(* one ends, the ends do not decrease                                     *)
Contiguous(subs) ==
    /\ Len(subs) >= 1
    /\ FEq(subs[1].start, FInt(0))
    /\ \A k \in 2..Len(subs) :
          /\ FEq(subs[k].start, subs[k - 1].end)
          /\ FLeq(subs[k - 1].end, subs[k].end)
    /\ \A k \in 1..Len(subs) : FLeq(subs[k].start, subs[k].end)

(* C13: for every narration text (empty, blank and punctuation-only ones   *)
(* included) and every duration D > 0 the chunk list is non-empty, its     *)
(* first chunk starts at 0, every later chunk starts exactly where the     *)
(* previous one ends, the ends are non-decreasing and the last chunk ends  *)
(* at D.                                                                   *)
C13_ChunksPartitionDuration ==
    HasScene(currentSceneIndex) =>
        /\ Contiguous(currentSubtitles)
        /\ FEq(LastEnd, FInt(CurrentDuration))

(* |x - y| <= D / 2^(SigBits - 3)                                           *)
Near(x, y, D) ==
    LET diff == x.n * y.d - y.n * x.d
        abs == IF diff >= 0 THEN diff ELSE 0 - diff
    IN  abs * Pow2(SigBits - 3) <= D * x.d * y.d

(* the part of C13 the code keeps: the chunks are contiguous from 0, and   *)
(* the last one ends at D up to the rounding of the sum; a single chunk    *)
(* ends at D exactly                                                       *)
C13_ContiguousUpToRounding ==
    HasScene(currentSceneIndex) =>
        /\ Contiguous(currentSubtitles)
        /\ Near(LastEnd, FInt(CurrentDuration), CurrentDuration)
        /\ Len(currentSubtitles) = 1 => FEq(LastEnd, FInt(CurrentDuration))

(* the exact difference x - y of two numbers                               *)
FSub(x, y) ==
    LET d == IF x.d >= y.d THEN x.d ELSE y.d
    IN  [n |-> x.n * (d \div x.d) - y.n * (d \div y.d), d |-> d]

ChunkDuration(k) == FSub(currentSubtitles[k].end, currentSubtitles[k].start)

(* l_k and L: the characters of chunk k and of all chunks                  *)
ChunkLen(k) == Len(currentSubtitles[k].text)

RECURSIVE SumChunkLen(_)
SumChunkLen(k) == IF k = 0 THEN 0 ELSE ChunkLen(k) + SumChunkLen(k - 1)

AllChunkLen == SumChunkLen(Len(currentSubtitles))

(* C14 as stated: for every text split into N segments of lengths l1..lN   *)
(* with sum L > 0, chunk i's duration end - start equals D * li / L.       *)
C14_DurationProportional ==
    (HasScene(currentSceneIndex) /\ AllChunkLen > 0) =>
        \A k \in DOMAIN currentSubtitles :
            FEq(ChunkDuration(k), [n |-> CurrentDuration * ChunkLen(k),
                                   d |-> AllChunkLen])

(* C14, amended: for every text split into N segments of lengths l1..lN    *)
(* with sum L > 0, chunk i's duration end - start equals D * li / L up to  *)
(* the rounding of the floating-point operations (within D / 2^(p - 3) for *)
(* a significand of p bits), li being the length of the trimmed segment    *)
(* with its trailing punctuation run.                                      *)
C14_DurationProportionalUpToRounding ==
    (HasScene(currentSceneIndex) /\ AllChunkLen > 0) =>
        /\ \A k \in DOMAIN currentSubtitles :
              /\ currentSubtitles[k].text = FinalParts(SceneAt(currentSceneIndex).text)[k]
              /\ Near(ChunkDuration(k),
                      [n |-> CurrentDuration * ChunkLen(k), d |-> AllChunkLen],
                      CurrentDuration)
        /\ Len(currentSubtitles) = Len(FinalParts(SceneAt(currentSceneIndex).text))

(* the second scene was entered; its text " a..aa" gives two chunks, the   *)
(* trimmed "a" with its punctuation run ".." (3 characters) and "aa" (2)   *)
C14_Witness ==
    /\ isPlaying /\ currentSceneIndex = 1
    /\ SceneAt(1).text = <<" ", "a", ".", ".", "a", "a">>
    /\ SceneAt(1).dur = 2
    /\ Len(currentSubtitles) = 2
    /\ ChunkLen(1) = 3 /\ ChunkLen(2) = 2

(* the events of the first k entries of a trace                            *)
EventsOf(tr, k) == [j \in 1..k |-> tr[j].ev]

(* C15: for the same scene list and the same sequence of media events, a   *)
(* session started with startPlayback(true) goes through the same          *)
(* currentSceneIndex values, the same pending timers and the same finish   *)
(* as one started with startPlayback(false): whenever the session begun    *)
(* last and the session before it were started with different arguments    *)
(* and saw the same first k events, they show the same after the k-th.     *)
C15_RecordingDoesNotAlterPlayback ==
    (hist.prev # <<>> /\ hist.curRec # hist.prevRec) =>
        \A k \in 1..Len(hist.cur) :
            (k <= Len(hist.prev) /\ EventsOf(hist.cur, k) = EventsOf(hist.prev, k))
                => hist.cur[k] = hist.prev[k]

(* a recording session of two scenes (a silent one, then a narrated one    *)
(* whose narration fails to start) has finished after the same events as   *)
(* the preview session before it                                           *)
C15_Witness ==
    /\ hist.prev # <<>> /\ hist.curRec /\ ~hist.prevRec
    /\ Len(scenes) = 2 /\ ~SceneAt(0).audio /\ SceneAt(1).audio
    /\ Len(hist.cur) = 4
    /\ EventsOf(hist.cur, 4) = <<"start", "dwell", "rejected", "fallback">>
    /\ EventsOf(hist.prev, 4) = EventsOf(hist.cur, 4)
    /\ ~isPlaying /\ mounted
    /\ \E r \in DOMAIN recorders : recorders[r].st # "recording"

(* the player is idle after a recording whose file has been offered        *)
IdleAfterRecording ==
    /\ mounted /\ ~isPlaying
    /\ files # <<>>
    /\ \A r \in DOMAIN recorders : recorders[r].st = "inactive"

(* C16: after a recording session has stopped and its file has been        *)
(* offered, the audio context created for the mix is closed and the        *)
(* encoder released: no open audio context remains while the player is     *)
(* idle between sessions.                                                  *)
C16_RecordingResourcesReleased ==
    IdleAfterRecording => (audioCtx # "running" /\ mediaRecorderRef = 0)

(* the part of C16 the code keeps: at most one audio context is ever open, *)
(* every stopped encoder is inactive once its file is offered, and the     *)
(* context is closed when the player is closed                             *)
C16_ContextClosedOnClose ==
    /\ ~mounted => audioCtx # "running"
    /\ \A i \in DOMAIN files : recorders[files[i].by].st = "inactive"

(* the scene now playing has narration audio but neither clip nor image    *)
FillScene ==
    /\ mounted /\ isPlaying /\ HasScene(currentSceneIndex)
    /\ SceneAt(currentSceneIndex).audio
    /\ ~SceneAt(currentSceneIndex).video
    /\ ~SceneAt(currentSceneIndex).image

(* the step leaves the scene now playing, the player staying open          *)
LeavesScene ==
    mounted' /\ (currentSceneIndex' # currentSceneIndex \/ ~isPlaying')

TickDrawsFill == (FillScene /\ RenderFrame) => hist'.draw.bg = "fill"

(* C17 as stated: while the current scene has audioUrl but neither         *)
(* videoUrl nor imageUrl, every render tick draws the fallback fill, and   *)
(* the scene is left only by the narration's 'ended' notification.         *)
C17_FillSceneLeftOnlyByEnded ==
    /\ [][TickDrawsFill]_vars
    /\ [][(FillScene /\ LeavesScene) => NarrationEnded]_vars

(* C17, amended: while the current scene has audioUrl but neither videoUrl *)
(* nor imageUrl, every render tick draws the fallback fill, whatever the   *)
(* previous scene showed, and the scene is left only by the narration's    *)
(* 'ended' notification or, when the narration failed to start, by the     *)
(* fallback timer (or by closing the player).                              *)
C17_FillSceneLeftByEndedOrFallback ==
    /\ [][TickDrawsFill]_vars
    /\ [][(FillScene /\ LeavesScene) =>
             \/ NarrationEnded
             \/ (narr.st = "failed" /\ timers = OwnFallbackTimers /\ TimerFire)]_vars

(* the second scene has only narration; a tick during it drew the fill     *)
(* although the first scene's clip had loaded and is still attached        *)
C17_Witness ==
    /\ FillScene
    /\ currentSceneIndex = 1
    /\ SceneAt(0).video
    /\ video.src = 0 /\ video.ready
    /\ narr.st = "playing"
    /\ hist.draw.at = 1 /\ hist.draw.bg = "fill"

(* an advance is taken while a scene plays: a timer fires or the narration *)
(* ends                                                                    *)
AdvanceStep ==
    /\ mounted /\ isPlaying /\ HasScene(currentSceneIndex)
    /\ TimerFire \/ NarrationEnded

(* the per-scene entry of the scene now current has just run, once: its    *)
(* visuals are set and its one advance is set up                           *)
JustEntered ==
    LET sc == SceneAt(currentSceneIndex)
    IN  /\ PendingAdvances = 1
        /\ IF sc.audio
           THEN /\ narr = [st |-> "loading", src |-> currentSceneIndex,
                           sess |-> session, pos |-> 0]
                /\ Cardinality(plays) = 1
                /\ \A p \in plays : p.scene = currentSceneIndex
                /\ timers = {}
           ELSE /\ Cardinality(DwellTimers(timers)) = 1
                /\ \A t \in timers : t.kind = "dwell" /\ t.scene = currentSceneIndex
                /\ plays = {}
        /\ IF sc.video
           THEN video.src = currentSceneIndex /\ ~video.paused /\ ~video.ready
           ELSE video.paused

(* C18: an advance taken while playing scene i of n scenes sets            *)
(* currentSceneIndex to i + 1 and runs the entry of scene i + 1 exactly    *)
(* once when i + 1 < n; otherwise the player becomes Finished and no scene *)
(* entry runs.                                                             *)
C18_AdvanceEntersNextOrFinishes ==
    [][AdvanceStep =>
          IF currentSceneIndex + 1 < Len(scenes)
          THEN /\ currentSceneIndex' = currentSceneIndex + 1
               /\ isPlaying'
               /\ JustEntered'
          ELSE /\ ~isPlaying'
               /\ currentSceneIndex' = currentSceneIndex
               /\ timers' = {} /\ plays' = {}
               /\ narr'.src = narr.src
               /\ video'.src = video.src /\ img' = img]_vars

(* the narration of the first scene ended and the second scene, which has  *)
(* a clip and narration, has just been entered                             *)
C18_Witness ==
    /\ mounted /\ isPlaying /\ currentSceneIndex = 1
    /\ SceneAt(0).audio /\ narr.src = 1 /\ narr.st = "loading"
    /\ SceneAt(1).video /\ video.src = 1
    /\ JustEntered

(* a scene is playing                                                      *)
ScenePlaying == mounted /\ isPlaying /\ HasScene(currentSceneIndex)

(* the visual handles are those of the scene now current                   *)
VisualsOfCurrentScene ==
    LET sc == SceneAt(currentSceneIndex)
    IN  IF sc.video
        THEN /\ video.src = currentSceneIndex /\ ~video.paused
             /\ img.src = NoSrc /\ ~img.ready
        ELSE IF sc.image
        THEN /\ img.src = currentSceneIndex
             /\ video.paused /\ video.src = NoSrc
        ELSE /\ img.src = NoSrc /\ ~img.ready
             /\ video.paused

(* what a tick may draw for the scene now current                          *)
BackgroundsOfCurrentScene ==
    LET sc == SceneAt(currentSceneIndex)
    IN  IF sc.video THEN {"video", "fill"}
        ELSE IF sc.image THEN {"image", "fill"}
        ELSE {"fill"}

(* C19: after every scene entry the visual handles reflect only the new    *)
(* scene: with videoUrl the clip is attached and playing and the image     *)
(* detached (also when the scene has an imageUrl too); with imageUrl only  *)
(* the image is attached and the clip stopped and detached; with neither   *)
(* the image is detached and the clip stopped.  Hence a tick never draws   *)
(* the image or clip of another scene.                                     *)
C19_VisualsReflectScene ==
    /\ [](ScenePlaying => VisualsOfCurrentScene)
    /\ [][(ScenePlaying /\ RenderFrame) =>
             hist'.draw.bg \in BackgroundsOfCurrentScene]_vars

(* the second scene has an image only; it follows a scene with both URLs   *)
(* whose clip had loaded: the image is attached, the clip is stopped and   *)
(* detached                                                                *)
C19_Witness ==
    /\ ScenePlaying /\ currentSceneIndex = 1
    /\ SceneAt(0).video /\ SceneAt(0).image
    /\ ~SceneAt(1).video /\ SceneAt(1).image
    /\ img.src = 1 /\ img.ready
    /\ video.src = NoSrc /\ video.paused /\ video.ready
    /\ hist.draw.at = 1 /\ hist.draw.bg = "image"

(* the scene now current is shown as a still image                         *)
StillScene == ScenePlaying /\ Background = "image"

(* the zoom factor the claim prescribes for the scene now current          *)
OwnScale == Scale(Elapsed, ZoomDuration(currentSceneIndex))

(* C20: while scene k is shown as a still image, the zoom factor a tick    *)
(* draws at elapsed time e since scene k's entry is                        *)
(* 1 + 0.15 * min(e / Dk, 1), Dk being scene k's own audioDuration (5 if   *)
(* absent).                                                                *)
C20_ZoomOverOwnDuration ==
    [][(StillScene /\ RenderFrame) => FEq(hist'.draw.zoom, OwnScale)]_vars

(* what does hold: the elapsed time is counted from the entry of the scene *)
(* shown, the factor is 1 at the entry and never exceeds 1.15              *)
C20_ZoomStartsAtOneAndIsBounded ==
    [][(StillScene /\ RenderFrame) =>
          /\ FLeq(FInt(1), hist'.draw.zoom)
          /\ FLeq(hist'.draw.zoom, [n |-> 115, d |-> 100])
          /\ (Elapsed = 0 => FEq(hist'.draw.zoom, FInt(1)))]_vars

(* the second scene is drawn a second after its entry                      *)
C20_Witness ==
    /\ StillScene /\ currentSceneIndex = 1
    /\ hist.draw.at = 1 /\ hist.draw.bg = "image"
    /\ Elapsed = 1 /\ hist.sceneStartTime > 0

(* the scene now playing has a clip or an image that is not ready, or a    *)
(* narration that failed to start                                          *)
AssetFailure ==
    /\ ScenePlaying
    /\ \/ video.src = currentSceneIndex /\ ~video.ready
       \/ img.src = currentSceneIndex /\ ~img.ready
       \/ narr.st = "failed" /\ narr.src = currentSceneIndex

(* C21: a failure of a scene's image or clip to load, or of its narration  *)
(* to start, never ends the session and never skips a scene: while a scene *)
(* plays the index moves by one scene at a time, the session ends only on  *)
(* the advance past the last scene (or when the player is closed), while   *)
(* an asset of the scene is unready or its narration has failed only an    *)
(* advance (a timer, 'ended') changes the index or isPlaying, and a        *)
(* session that plays a scene does finish.                                 *)
C21_FailuresNeitherEndNorSkip ==
    /\ [][ScenePlaying /\ mounted' =>
            /\ currentSceneIndex' \in {currentSceneIndex, currentSceneIndex + 1}
            /\ (~isPlaying' => /\ currentSceneIndex = Len(scenes) - 1
                               /\ currentSceneIndex' = currentSceneIndex
                               /\ (TimerFire \/ NarrationEnded))]_vars
    /\ [][(AssetFailure /\ mounted' /\ ~(TimerFire \/ NarrationEnded)) =>
            /\ currentSceneIndex' = currentSceneIndex
            /\ isPlaying']_vars
    /\ ScenePlaying ~> (Finished \/ ~mounted)

(* a session of two scenes has finished although the clip of its last      *)
(* scene never became ready (every tick drew the fill) and its narration   *)
(* failed to start                                                         *)
C21_Witness ==
    /\ Finished /\ Len(scenes) = 2 /\ currentSceneIndex = 1
    /\ video.src = 1 /\ ~video.ready
    /\ narr.st = "failed" /\ narr.src = 1
    /\ hist.draw.at = 1 /\ hist.draw.bg = "fill"

(* videoReady && !videoRef.current.paused (line 128)                      *)
ClipDrawable == video.ready /\ ~video.paused

C23_IndexInRange ==
    /\ [](Len(scenes) > 0 => currentSceneIndex \in 0..(Len(scenes) - 1))
    /\ [][currentSceneIndex' # currentSceneIndex =>
            \/ /\ currentSceneIndex' = currentSceneIndex + 1
               /\ TimerFire \/ NarrationEnded
            \/ /\ currentSceneIndex' = 0
               /\ session' = session + 1]_vars

(* a second session, which startPlayback began at scene 0 from the last    *)
(* index of the first one, has advanced to its last scene and finished     *)
C23_Witness ==
    /\ mounted /\ session = 2 /\ ~isPlaying
    /\ Len(scenes) = 2 /\ currentSceneIndex = 1
    /\ hist.log # <<>>

(* the recorders whose state is not 'inactive' (stop() makes a recorder    *)
(* inactive at once, before its last events are delivered)                 *)
ActiveRecorders == {r \in DOMAIN recorders : recorders[r].st = "recording"}

(* C24: at any time at most one MediaRecorder created by the player is in  *)
(* a non-inactive state: startPlayback(true) never creates a recorder      *)
(* while a recorder created before is still recording.                     *)
C24_AtMostOneActiveRecorder == Cardinality(ActiveRecorders) <= 1

(* what does hold: the recorder that mediaRecorderRef designates is the    *)
(* one created last, and only it can be stopped                            *)
C24_RefIsLastRecorder ==
    mediaRecorderRef \in {0, Len(recorders)}

(* the narration's position is the end of chunk k and the start of chunk   *)
(* k + 1 of the scene now current                                          *)
AtSharedBoundary(k) ==
    /\ k \in 1..(Len(currentSubtitles) - 1)
    /\ FEq(currentSubtitles[k].end, FInt(narr.pos))
    /\ FEq(currentSubtitles[k + 1].start, FInt(narr.pos))

(* C25: on each render tick at most one subtitle chunk is drawn, and when  *)
(* the narration's position is the shared boundary of two adjacent chunks  *)
(* the tick selects (and draws) the earlier one.                           *)
C25_BoundarySelectsEarlier ==
    [][(ScenePlaying /\ RenderFrame) =>
          /\ \/ hist'.draw.sub = NoSub
             \/ \E k \in DOMAIN currentSubtitles :
                   hist'.draw.sub = currentSubtitles[k].text
          /\ \A k \in DOMAIN currentSubtitles :
                AtSharedBoundary(k) =>
                    hist'.draw.sub = currentSubtitles[k].text]_vars

(* what does hold: the lookup of line 154, applied to the chunks of the    *)
(* scene now current, selects the earlier chunk at a shared boundary       *)
C25_LookupSelectsEarlier ==
    \A k \in DOMAIN currentSubtitles :
        (ScenePlaying /\ AtSharedBoundary(k)) =>
            FindActive(currentSubtitles, narr.pos) = k

(* the effective duration of scene idx as the claim defines it             *)
OwnDuration(idx) ==
    IF SceneAt(idx).dur > 0 THEN SceneAt(idx).dur ELSE 5

(* the chunker and the fallback timer use the effective duration of their  *)
(* own scene, which is never 0                                             *)
C26_ChunkerAndFallbackAgree ==
    /\ \A i \in 0..(Len(scenes) - 1) : OwnDuration(i) > 0
    /\ ScenePlaying =>
          currentSubtitles =
              Subtitles(SceneAt(currentSceneIndex).text,
                        OwnDuration(currentSceneIndex))
    /\ \A t \in timers :
          t.kind = "fallback" => t.delay = OwnDuration(t.scene)
    /\ \A p \in plays : p.delay = OwnDuration(p.scene)
    /\ hist.draw.zoom.d > 0

(* C26: the effective duration of a scene is its audioDuration when that   *)
(* is positive and 5 otherwise, and the subtitle chunker, the zoom and the *)
(* narration-failure fallback timer all use this same value for a given    *)
(* scene, so that it is never 0 where it is a divisor.                     *)
C26_OneDurationPerScene ==
    /\ []C26_ChunkerAndFallbackAgree
    /\ [][(StillScene /\ RenderFrame) =>
             FEq(hist'.draw.zoom,
                 Scale(Elapsed, OwnDuration(currentSceneIndex)))]_vars

(* the positions in calls of the video generations that failed on quota    *)
QuotaFailures ==
    {j \in DOMAIN production.calls :
        production.calls[j].kind = "video" /\ production.calls[j].res = "quota"}

(* a scene whose generation is awaited                                     *)
Awaited ==
    IF production.pc = "audioWait"
    THEN {production.audioTasks[production.i]}
    ELSE IF production.pc \in {"videoWait", "imageWait", "fallbackWait"}
    THEN {production.visualTasks[production.i]}
    ELSE {}

FlagsFalse(sc) ==
    ~sc.isGeneratingAudio /\ ~sc.isGeneratingVideo /\ ~sc.isGeneratingImage

(* the scenes of the run that were left without what was generated for     *)
(* them: no narration, or neither clip nor image                           *)
FailedScenes ==
    {<<"audio", production.audioTasks[j]>> :
        j \in {j \in DOMAIN production.audioTasks :
                  ~production.scenes[production.audioTasks[j]].audioUrl}}
    \cup
    {<<"visual", production.visualTasks[j]>> :
        j \in {j \in DOMAIN production.visualTasks :
                  NeedsVisual(production.scenes[production.visualTasks[j]])}}

(* once a video generation has failed on quota no further video generation *)
(* is attempted in the run: none is pending, every later call is an image  *)
(* generation, one per scene, and when the run is over the scene of the    *)
(* failure and every visual task after it got its image attempt            *)
NoVideoAfterQuota ==
    /\ (QuotaFailures # {} => production.pc # "videoWait")
    /\ \A j \in QuotaFailures : \A k, m \in DOMAIN production.calls :
          (k > j /\ m > j) =>
              /\ production.calls[k].kind = "image"
              /\ (production.calls[k].scene = production.calls[m].scene
                    => k = m)
    /\ production.pc = "done" =>
          \A j \in QuotaFailures :
              \A t \in DOMAIN production.visualTasks :
                  production.visualTasks[t] >= production.calls[j].scene =>
                      \E k \in DOMAIN production.calls :
                          /\ k > j
                          /\ production.calls[k].kind = "image"
                          /\ production.calls[k].scene
                                = production.visualTasks[t]

(* every scene but the one awaited has its flags false, and when the run   *)
(* is over every scene has                                                 *)
FlagsCleared ==
    \A j \in DOMAIN production.scenes :
        j \notin Awaited => FlagsFalse(production.scenes[j])

(* C27 as stated: the player is opened automatically only when no          *)
(* generation call of the run failed.                                      *)
C27_OpenedOnlyIfNoCallFailed ==
    [][(production.pc # "done" /\ production'.pc = "done"
           /\ production'.showPlayer) =>
          \A j \in DOMAIN production'.calls :
              production'.calls[j].res = "ok"]_vars

(* C27: in handleStartProduction, once a video generation fails with a     *)
(* quota error no further video generation is attempted in that run (each  *)
(* remaining scene gets an image attempt only); every processed scene ends *)
(* with its isGenerating flags false whether its generation succeeded or   *)
(* failed; and the player is opened automatically exactly when no scene of *)
(* the run was left without its narration or without a clip or an image (a *)
(* failed video generation whose image fallback succeeded is no failure).  *)
C27_ProductionRun ==
    /\ [](NoVideoAfterQuota /\ FlagsCleared)
    /\ [](production.pc = "done" =>
            /\ Awaited = {}
            /\ production.failedCount = Cardinality(FailedScenes)
            /\ production.alert = (FailedScenes # {}))
    /\ [][(production.pc # "done" /\ production'.pc = "done") =>
            (production'.showPlayer <=> production'.failedCount = 0)]_vars

(* a run of three visual tasks is over: the first video generation failed  *)
(* on quota and its image fallback succeeded, the second scene got an      *)
(* image, the image of the third failed; the player was not opened         *)
C27_Witness ==
    /\ production.pc = "done" /\ Len(production.visualTasks) = 3
    /\ Len(production.calls) >= 4
    /\ 1 \in QuotaFailures \/ 2 \in QuotaFailures
    /\ production.failedCount = 1 /\ production.alert
    /\ ~production.showPlayer
    /\ \E j \in DOMAIN production.scenes :
          NeedsVisual(production.scenes[j])

(* a run is over in which a video generation failed and the player was     *)
(* opened                                                                  *)
C27_OpenedAfterFallback ==
    /\ production.pc = "done" /\ production.showPlayer
    /\ QuotaFailures # {}

(* C28: generateSceneAudio makes at most 2 generation attempts: it returns *)
(* the result of the first attempt that succeeds without making any        *)
(* further attempt, and throws, with an error carrying the last failure's  *)
(* message, only after both attempts have failed.                          *)
C28_AtMostTwoAttempts ==
    /\ [](/\ Len(audioGen.requests) <= 2
          /\ (audioGen.pc = "returned" =>
                /\ audioGen.result > 0
                /\ Len(audioGen.failures) = Len(audioGen.requests) - 1)
          /\ (audioGen.pc = "thrown" =>
                /\ Len(audioGen.requests) = 2
                /\ Len(audioGen.failures) = 2
                /\ audioGen.thrown = audioGen.failures[2]
                /\ audioGen.result = 0))
    /\ [][audioGen.pc \in {"returned", "thrown"} =>
            audioGen' = audioGen]_vars

(* the second attempt failed with another error than the first: the error  *)
(* thrown carries the message of the second                                *)
C28_Witness ==
    /\ audioGen.pc = "thrown"
    /\ audioGen.failures[1] # audioGen.failures[2]
    /\ audioGen.thrown = audioGen.failures[2]
    /\ audioGen.requests = <<(<<"a", ".">>), (<<"a", ".">>)>>

(* the polling loop is over                                                *)
PollingOver == videoPoll.pc \in {"exited", "timeout", "failed"}

(* C29: the polling loop of generateSceneVideo always terminates: it stops *)
(* as soon as the operation reports done, and otherwise throws a timeout   *)
(* error after a bounded number of polls (at most 31 status requests); it  *)
(* never polls for ever.                                                   *)
C29_PollingTerminates ==
    /\ [](/\ videoPoll.polls <= 31
          /\ (videoPoll.done => videoPoll.pc = "exited")
          /\ (videoPoll.pc = "timeout" =>
                ~videoPoll.done /\ videoPoll.polls = 31))
    /\ [][PollingOver => videoPoll' = videoPoll]_vars
    /\ (videoPoll.pc # "idle") ~> PollingOver

(* thirty-one status requests all reported 'not done': timeout             *)
C29_Witness ==
    /\ videoPoll.pc = "timeout"
    /\ videoPoll.polls = 31
    /\ videoPoll.attempts = 31

(* the stored list before and after a step, and the ids in it              *)
Stored == GetProjectsFromStorage

IdsOf(list) == [j \in DOMAIN list |-> list[j].id]

StoredIds == {Stored[j].id : j \in DOMAIN Stored}

(* a save replaced the entry of a stored id in place, or put a new id at   *)
(* the front                                                               *)
Saved(id, title) ==
    IF id \in StoredIds
    THEN /\ IdsOf(Stored') = IdsOf(Stored)
         /\ \A j \in DOMAIN Stored :
               IF Stored[j].id = id
               THEN Stored'[j].title = title
               ELSE Stored'[j] = Stored[j]
    ELSE /\ Len(Stored') = Len(Stored) + 1
         /\ Stored'[1].id = id /\ Stored'[1].title = title
         /\ Tail(Stored') = Stored

(* a delete removed the id and nothing else                                *)
Deleted(id) ==
    /\ id \notin {Stored'[j].id : j \in DOMAIN Stored'}
    /\ Stored' = SelectSeq(Stored, LAMBDA q : q.id # id)
    /\ (id \notin StoredIds => Stored' = Stored)

(* at most one stored project per id                                       *)
OnePerId ==
    \A j, k \in DOMAIN Stored : Stored[j].id = Stored[k].id => j = k

(* C30 as stated: after any sequence of saves and deletes from empty       *)
(* storage the list holds at most one project per id, every save of a      *)
(* stored id replaces its entry in place, every save of a new id inserts   *)
(* it at the front, and every delete removes the id.                       *)
C30_StoreAsStated ==
    /\ []OnePerId
    /\ [][\A id \in ProjectIds, w \in BOOLEAN :
            /\ \A title \in Titles :
                  SaveProject(id, title, w) => Saved(id, title)
            /\ DeleteProject(id, w) => Deleted(id)]_vars

(* C30: the same for every call whose write to localStorage succeeds; a    *)
(* call whose write throws leaves the stored list as it was.               *)
C30_StoreWhenWritten ==
    /\ []OnePerId
    /\ [][\A id \in ProjectIds :
            /\ \A title \in Titles :
                  /\ SaveProject(id, title, TRUE) => Saved(id, title)
                  /\ SaveProject(id, title, FALSE) => Stored' = Stored
            /\ DeleteProject(id, TRUE) => Deleted(id)
            /\ DeleteProject(id, FALSE) => Stored' = Stored]_vars

(* p1 was saved, p2 was saved in front of it, then p1 was saved again: it  *)
(* kept the second place and has the later time stamp                      *)
C30_Witness ==
    /\ IdsOf(Stored) = <<"p2", "p1">>
    /\ Stored[2].updatedAt > Stored[1].updatedAt
    /\ Stored[2].title = "b"

====
